---- MODULE Spec2Model ----
(***************************************************************************)
(* Model of the IMAP session engine of mcp_email_server/emails/classic.py. *)
(* One behaviour is one call of one EmailClient operation: it creates an   *)
(* IMAP client, connects, logs in, identifies itself, selects a mailbox,   *)
(* runs the operation's commands and logs out in its finally block.        *)
(* The IMAP library (aioimaplib) and the server are the environment: every *)
(* awaited call either raises or is answered with a status the code may or *)
(* may not inspect.                                                        *)
(***************************************************************************)
EXTENDS Integers, Sequences, FiniteSets, TLC

\* Longest batch of message identifiers handed to a bulk operation.
MaxLen == 2

\* Message identifiers (IMAP UIDs, strings of digits in the code).
Ids == {"101", "102"}

\* What an awaited IMAP call can do: answer OK, answer non-OK (NO/BAD), raise.
Statuses == {"OK", "NO"}
Results == Statuses \cup {"EXC"}

\* The operations modelled: the EmailClient methods that create an IMAP
\* client, and ClassicEmailHandler.remove_label, which calls three of them
\* per identifier.
\* (apply_label is copy_emails to the label's folder, and the handler's response)
BulkOps == {"delete", "copy", "move", "apply_label"}
FetchOps == {"body", "download"}
FolderOps == {"create_folder", "delete_folder", "rename_folder"}
LookupOps == {"message_id", "search_mid"}
SessionOps ==
    BulkOps \cup FetchOps \cup FolderOps \cup LookupOps \cup {"count", "list", "list_folders"}
Ops == SessionOps \cup {"remove_label"}

\* Operations that take a batch of identifiers.
BatchOps == BulkOps \cup {"remove_label"}

\* Operations that SELECT a mailbox after LOGIN and ID.
SelectOps == BulkOps \cup FetchOps \cup LookupOps \cup {"count", "list"}

\* Variant of CatchAllOps: the folder operations let an exception propagate.
CatchAllLookups == LookupOps

\* Operations whose try block has "except Exception: return <failure value>";
\* send_email stands for the append_to_sent it calls.
CatchAllOps == FolderOps \cup LookupOps \cup {"send_email"}

\* Label names and source mailboxes a label call is made with.
LabelNames == {"Important", "Work"}
SourceMailboxes == {"INBOX", "Archive"}

\* label_folder = f"Labels/{label_name}"
LabelFolder(label_name) == "Labels/" \o label_name

\* fetch_formats of _fetch_email_with_formats
FetchFormats == <<"RFC822", "BODY[]", "BODY.PEEK[]", "(BODY.PEEK[])">>

VARIABLES
    op,             \* the operation called
    email_ids,      \* its input batch (list[str])
    pc,             \* position in the operation's code
    idx,            \* 1-based position of the loop (over email_ids, or fetch_formats)
    succeeded_ids,  \* deleted_ids / copied_ids / moved_ids / removed_ids
    failed_ids,     \* failed_ids
    cmds,           \* every awaited call so far, with its outcome
    exc,            \* an exception is propagating out of the try block
    result,         \* what a return statement of a non-batch operation returns
    outcome         \* "running", then "returned" or "raised"

\* State that the session machine leaves untouched: that of the
\* function-level specifications below, and the arguments of a label call.
VARIABLES
    server,         \* move against two servers: each server's mailboxes
    lists,          \* move against two servers: each run's moved_ids / failed_ids
    listing,        \* paged listing: the mailbox, the server and the call's arguments
    listed,         \* paged listing: what the calls made so far have yielded
    request         \* apply_label / remove_label: the arguments of the call

\* The state of each function-level specification.
move_vars == <<server, lists>>
list_vars == <<listing, listed>>

aux_vars == <<move_vars, list_vars, request>>

\* The value of a variable that the specification at hand does not use.
Unused == <<>>

vars ==
    <<op, email_ids, pc, idx, succeeded_ids, failed_ids, cmds, exc, result, outcome,
      aux_vars>>

\* All sequences over S of length at most n.
RECURSIVE SeqsUpTo(_, _)
SeqsUpTo(S, n) ==
    IF n = 0 THEN {<<>>}
    ELSE LET shorter == SeqsUpTo(S, n - 1)
         IN shorter \cup {Append(s, x) : s \in {t \in shorter : Len(t) = n - 1}, x \in S}

\* The elements of a sequence.
Range(seq) == {seq[i] : i \in DOMAIN seq}

\* One awaited call: the command, the identifier it is about ("" if none),
\* the position of that identifier in email_ids (0 if none), what happened,
\* the mailbox it names ("" where the model does not follow it) and what
\* _check_email_content finds in its data ("" where it is not asked).
Cmd(name, id, pos, res) ==
    [cmd |-> name, arg |-> id, pos |-> pos, res |-> res, folder |-> "", data |-> ""]

\* The same for a call whose mailbox argument is followed.
CmdIn(name, id, pos, res, folder) ==
    [cmd |-> name, arg |-> id, pos |-> pos, res |-> res, folder |-> folder, data |-> ""]

\* str(status).upper() == "OK"
IsOK(status) == status = "OK"

Init ==
    /\ op \in Ops
    /\ email_ids \in (IF op \in BatchOps THEN SeqsUpTo(Ids, MaxLen) ELSE {<<>>})
    /\ pc = IF op = "remove_label"
            THEN (IF email_ids = <<>> THEN "respond" ELSE "remove_label")
            ELSE "connect"
    /\ idx = 1
    /\ succeeded_ids = <<>>
    /\ failed_ids = <<>>
    /\ cmds = <<>>
    /\ exc = FALSE
    /\ result = "none"
    /\ outcome = "running"
    /\ server = Unused
    /\ lists = Unused
    /\ listing = Unused
    /\ listed = Unused
    /\ request \in (CASE op = "apply_label" ->
                            [label_name : LabelNames, source_mailbox : SourceMailboxes]
                      [] op = "remove_label" -> [label_name : LabelNames]
                      [] OTHER -> {Unused})

\* Control stays in the try block.
Goto(p) ==
    /\ pc' = p
    /\ UNCHANGED <<exc, result>>

\* A return statement inside the try block: the finally block runs next.
Return(v) ==
    /\ pc' = "logout"
    /\ result' = v
    /\ UNCHANGED exc

\* An exception raised inside the try block and not caught by an inner try:
\* "except Exception" returns a failure value where the operation has one,
\* otherwise the exception propagates; either way the finally block runs next.
Raise ==
    /\ pc' = "logout"
    /\ IF op \in CatchAllOps
       THEN result' = "failure" /\ UNCHANGED exc
       ELSE exc' = TRUE /\ UNCHANGED result

\* await imap._client_task; await imap.wait_hello_from_server()
Connect ==
    /\ pc = "connect"
    /\ \E r \in {"OK", "EXC"} :
        /\ cmds' = Append(cmds, Cmd("CONNECT", "", 0, r))
        /\ IF r = "EXC" THEN Raise ELSE Goto("login")
    /\ UNCHANGED <<op, email_ids, idx, succeeded_ids, failed_ids, outcome>>
    /\ UNCHANGED aux_vars

\* await imap.login(user_name, password): the response is not inspected.
Login ==
    /\ pc = "login"
    /\ \E r \in Results :
        /\ cmds' = Append(cmds, Cmd("LOGIN", "", 0, r))
        /\ IF r = "EXC" THEN Raise ELSE Goto("id")
    /\ UNCHANGED <<op, email_ids, idx, succeeded_ids, failed_ids, outcome>>
    /\ UNCHANGED aux_vars

\* The first statement of each operation after its session is set up.
BodyStart(o) ==
    CASE o = "delete" -> "store"
      [] o \in {"copy", "apply_label"} -> "copy"
      [] o = "move" -> "move"
      [] o = "count" -> "count"
      [] o = "list" -> "capability"
      [] o \in FetchOps -> "fetch"
      [] o = "list_folders" -> "list_folders"
      [] o \in FolderOps -> "folder"
      [] o = "message_id" -> "fetch_message_id"
      [] o = "search_mid" -> "search_message_id"
      [] o = "send_email" -> "find"

\* Variant of ExpungeNeeded: every bulk operation expunges after its loop.
ExpungeEveryBatch(o, done_ids) == o \in BulkOps

\* Variant of ExpungeNeeded: move_emails expunges whatever its loop did.
ExpungeAlways(o, done_ids) == o \in {"delete", "move"}

\* delete_emails expunges after its loop whatever the loop did; move_emails
\* only "if moved_ids"; no other operation expunges.
ExpungeNeeded(o, done_ids) ==
    CASE o = "delete" -> TRUE
      [] o = "move" -> done_ids # <<>>
      [] OTHER -> FALSE

\* Where control goes once the item at position i has been dealt with:
\* the next iteration of "for email_id in email_ids", or past the loop.
AfterItem(o, i, done_ids) ==
    IF i < Len(email_ids) THEN BodyStart(o)
    ELSE IF ExpungeNeeded(o, done_ids) THEN "expunge" ELSE "logout"

\* An operation called with an empty batch skips its loop.
EnterBody(o) == IF o \in BulkOps THEN AfterItem(o, 0, <<>>) ELSE BodyStart(o)

\* The calls _send_imap_id makes for an answer r of imap.id() and an outcome
\* raw of the raw command: the raw ID is sent only when id() answered non-OK.
IdCalls(r, raw) ==
    IF r # "EXC" /\ ~IsOK(r)
    THEN <<Cmd("ID", "", 0, r), Cmd("ID_RAW", "", 0, raw)>>
    ELSE <<Cmd("ID", "", 0, r)>>

\* Variant of IdPropagates: _send_imap_id without its try/except.
IdRaises(r, raw) == r = "EXC" \/ (r = "NO" /\ raw = "EXC")

\* What _send_imap_id lets escape to its caller: nothing, its except clause
\* catches every exception of id() and of the raw command.
IdPropagates(r, raw) == FALSE

\* await _send_imap_id(imap)
SendImapId ==
    /\ pc = "id"
    /\ \E r \in Results, raw \in {"OK", "EXC"} :
        /\ cmds' = cmds \o IdCalls(r, raw)
        /\ IF IdPropagates(r, raw) THEN Raise
           ELSE Goto(IF op \in SelectOps THEN "select" ELSE EnterBody(op))
    /\ UNCHANGED <<op, email_ids, idx, succeeded_ids, failed_ids, outcome>>
    /\ UNCHANGED aux_vars

\* Whether the operation goes on after SELECT answered r: the response is
\* not inspected, only an exception stops it.
SelectProceeds(r) == r # "EXC"

\* The mailbox argument of select: copy_emails is handed source_mailbox by
\* apply_label.
SelectedMailbox == IF op = "apply_label" THEN request.source_mailbox ELSE ""

\* await imap.select(_quote_mailbox(mailbox))
Select ==
    /\ pc = "select"
    /\ \E r \in Results :
        /\ cmds' = Append(cmds, CmdIn("SELECT", "", 0, r, SelectedMailbox))
        /\ IF SelectProceeds(r) THEN Goto(EnterBody(op)) ELSE Raise
    /\ UNCHANGED <<op, email_ids, idx, succeeded_ids, failed_ids, outcome>>
    /\ UNCHANGED aux_vars

\* Variant of Succeed: the id is inserted at the front of the list.
SucceedInFront ==
    /\ succeeded_ids' = <<email_ids[idx]>> \o succeeded_ids
    /\ failed_ids' = failed_ids
    /\ idx' = idx + 1

\* Variant of Fail: the failure is logged but the id is not recorded.
FailNotRecorded ==
    /\ failed_ids' = failed_ids
    /\ succeeded_ids' = succeeded_ids
    /\ idx' = idx + 1

\* The item at position idx ends in the succeeded list or in the failed list.
Succeed ==
    /\ succeeded_ids' = Append(succeeded_ids, email_ids[idx])
    /\ failed_ids' = failed_ids
    /\ idx' = idx + 1

Fail ==
    /\ failed_ids' = Append(failed_ids, email_ids[idx])
    /\ succeeded_ids' = succeeded_ids
    /\ idx' = idx + 1

\* The end of one iteration of a bulk operation's loop.
ItemDone(ok) ==
    /\ IF ok THEN Succeed ELSE Fail
    /\ Goto(AfterItem(op, idx, succeeded_ids'))

\* Variant of DeleteSucceeded: the STORE status is required to be OK.
DeleteChecksStatus(r) == r # "EXC" /\ IsOK(r)

\* delete_emails: the STORE response is not inspected, only an exception
\* puts the id in failed_ids.
DeleteSucceeded(r) == r # "EXC"

\* delete_emails, one iteration: await imap.uid("store", id, "+FLAGS", "(\Deleted)")
StoreDeleted ==
    /\ pc = "store"
    /\ \E r \in Results :
        /\ cmds' = Append(cmds, Cmd("STORE", email_ids[idx], idx, r))
        /\ ItemDone(DeleteSucceeded(r))
    /\ UNCHANGED <<op, email_ids, outcome>>
    /\ UNCHANGED aux_vars

\* copy_emails: copied iff the call returned and its status is OK.
CopySucceeded(r) == r # "EXC" /\ IsOK(r)

\* Variant of ApplyLabelFolder: the label name is taken as the folder.
LabelNameAsFolder == request.label_name

\* apply_label: the destination_folder it hands to copy_emails.
ApplyLabelFolder == LabelFolder(request.label_name)

\* copy_emails, one iteration: await imap.uid("copy", id, destination)
Copy ==
    /\ pc = "copy"
    /\ \E r \in Results :
        /\ cmds' = Append(cmds, CmdIn("COPY", email_ids[idx], idx, r,
                                      IF op = "apply_label" THEN ApplyLabelFolder ELSE ""))
        /\ ItemDone(CopySucceeded(r))
    /\ UNCHANGED <<op, email_ids, outcome>>
    /\ UNCHANGED aux_vars

\* Variant of MoveSucceeded: the MOVE status is not inspected.
MoveIgnoresStatus(r) == r # "EXC"

\* move_emails: MOVE answered OK appends to moved_ids and continues with the
\* next id; a non-OK answer or an exception falls through to COPY.
MoveSucceeded(r) == r # "EXC" /\ IsOK(r)

\* move_emails, one iteration, first command: await imap.uid("move", id, destination)
Move ==
    /\ pc = "move"
    /\ \E r \in Results :
        /\ cmds' = Append(cmds, Cmd("MOVE", email_ids[idx], idx, r))
        /\ IF MoveSucceeded(r) THEN ItemDone(TRUE)
           ELSE Goto("copy_fb") /\ UNCHANGED <<idx, succeeded_ids, failed_ids>>
    /\ UNCHANGED <<op, email_ids, outcome>>
    /\ UNCHANGED aux_vars

\* move_emails fallback: COPY answered OK goes on to STORE; a non-OK answer or
\* an exception puts the id in failed_ids.
FallbackCopyOK(r) == r # "EXC" /\ IsOK(r)

\* move_emails fallback: await imap.uid("copy", id, destination)
FallbackCopy ==
    /\ pc = "copy_fb"
    /\ \E r \in Results :
        /\ cmds' = Append(cmds, Cmd("COPY", email_ids[idx], idx, r))
        /\ IF FallbackCopyOK(r)
           THEN Goto("store_fb") /\ UNCHANGED <<idx, succeeded_ids, failed_ids>>
           ELSE ItemDone(FALSE)
    /\ UNCHANGED <<op, email_ids, outcome>>
    /\ UNCHANGED aux_vars

\* move_emails fallback: the STORE response is not inspected; an exception is
\* caught by the outer except and puts the id in failed_ids.
FallbackStoreOK(r) == r # "EXC"

\* move_emails fallback: await imap.uid("store", id, "+FLAGS", "(\Deleted)")
FallbackStore ==
    /\ pc = "store_fb"
    /\ \E r \in Results :
        /\ cmds' = Append(cmds, Cmd("STORE", email_ids[idx], idx, r))
        /\ ItemDone(FallbackStoreOK(r))
    /\ UNCHANGED <<op, email_ids, outcome>>
    /\ UNCHANGED aux_vars

\* Whether an exception of imap.expunge() is caught inside the operation:
\* it is not, the call stands outside every per-item try.
ExpungeCaught(r) == FALSE

\* await imap.expunge(): the response is not inspected.
Expunge ==
    /\ pc = "expunge"
    /\ \E r \in Results :
        /\ cmds' = Append(cmds, Cmd("EXPUNGE", "", 0, r))
        /\ IF r = "EXC" /\ ~ExpungeCaught(r) THEN Raise ELSE Goto("logout")
    /\ UNCHANGED <<op, email_ids, idx, succeeded_ids, failed_ids, outcome>>
    /\ UNCHANGED aux_vars

\* get_email_count: await imap.uid_search(*criteria); return len(...)
CountSearch ==
    /\ pc = "count"
    /\ \E r \in Results :
        /\ cmds' = Append(cmds, Cmd("SEARCH", "", 0, r))
        /\ IF r = "EXC" THEN Raise ELSE Return("count")
    /\ UNCHANGED <<op, email_ids, idx, succeeded_ids, failed_ids, outcome>>
    /\ UNCHANGED aux_vars

\* What imap.protocol.capabilities can be when it is read: a set of tokens
\* with SORT, one without, an empty one.
CapabilitySets == {{"IMAP4rev1", "SORT"}, {"IMAP4rev1"}, {}}

\* Variant of HasSortCapability: SORT is assumed whenever the capabilities
\* can be read.
SortAssumed(raises, capabilities) == ~raises

\* _has_sort_capability: "SORT" in capabilities, False if reading them raises.
HasSortCapability(raises, capabilities) ==
    IF raises THEN FALSE ELSE "SORT" \in capabilities

\* get_emails_metadata_stream: if _has_sort_capability(imap). The reading is
\* recorded with the calls: what was read, and whether reading raised.
CheckSort ==
    /\ pc = "capability"
    /\ \E raises \in BOOLEAN, capabilities \in CapabilitySets :
        /\ raises => capabilities = {}
        /\ cmds' = Append(cmds, Cmd("capabilities", capabilities, 0,
                                    IF raises THEN "EXC" ELSE "OK"))
        /\ Goto(IF HasSortCapability(raises, capabilities) THEN "sort" ELSE "search")
    /\ UNCHANGED <<op, email_ids, idx, succeeded_ids, failed_ids, outcome>>
    /\ UNCHANGED aux_vars

\* What a listing command's data amounts to for the control flow: nothing,
\* identifiers none of which falls on the requested page, or a page.
ListData == {"empty", "off_page", "page"}

\* Variant of SortRaised: no try/except around the SORT path.
SortPropagates == Raise

\* What an exception of the SORT path does: "except Exception" logs a
\* warning and control falls through to the fallback.
SortRaised == Goto("search")

\* get_emails_metadata_stream, SORT path: await imap.uid("sort", ...); the
\* data answered is recorded with the call. An empty or missing response
\* and an empty page return.
Sort ==
    /\ pc = "sort"
    /\ \E r \in Results, data \in ListData :
        /\ cmds' = Append(cmds, Cmd("SORT", IF r = "EXC" THEN "" ELSE data, 0, r))
        /\ IF r = "EXC" THEN SortRaised
           ELSE IF data = "page" THEN Goto("fetch_page")
           ELSE Return("empty_page")
    /\ UNCHANGED <<op, email_ids, idx, succeeded_ids, failed_ids, outcome>>
    /\ UNCHANGED aux_vars

\* get_emails_metadata_stream, fallback: await imap.uid_search(*criteria);
\* an exception propagates.
ListSearch ==
    /\ pc = "search"
    /\ \E r \in Results, data \in {"empty", "page"} :
        /\ cmds' = Append(cmds, Cmd("SEARCH", "", 0, r))
        /\ IF r = "EXC" THEN Raise
           ELSE IF data = "page" THEN Goto("fetch_dates")
           ELSE Return("empty_page")
    /\ UNCHANGED <<op, email_ids, idx, succeeded_ids, failed_ids, outcome>>
    /\ UNCHANGED aux_vars

\* _batch_fetch_dates: an exception of the FETCH is caught and gives [];
\* no date tuples leads to the full-header fetch of every match.
FetchDates ==
    /\ pc = "fetch_dates"
    /\ \E r \in Results, data \in ListData :
        /\ cmds' = Append(cmds, Cmd("FETCH_DATES", "", 0, r))
        /\ IF r = "EXC" \/ data = "empty" THEN Goto("fetch_all")
           ELSE IF data = "page" THEN Goto("fetch_page")
           ELSE Return("empty_page")
    /\ UNCHANGED <<op, email_ids, idx, succeeded_ids, failed_ids, outcome>>
    /\ UNCHANGED aux_vars

\* Variant of AfterYield: no return after the yields of the SORT path.
YieldFallsThrough(v) ==
    IF \E i \in DOMAIN cmds : cmds[i].cmd = "SEARCH" THEN Return(v) ELSE Goto("search")

\* What follows "for metadata in ...: yield metadata" in each of the three
\* branches: "return", or the end of the function.
AfterYield(v) == Return(v)

\* _batch_fetch_headers for the page (or, at fetch_all, for every match):
\* an exception of the FETCH is caught and gives []; the items are yielded.
FetchHeaders ==
    /\ pc \in {"fetch_page", "fetch_all"}
    /\ \E r \in Results :
        /\ cmds' = Append(cmds, Cmd("FETCH_HEADERS", "", 0, r))
        /\ AfterYield(IF r = "EXC" THEN "empty_page" ELSE "page")
    /\ UNCHANGED <<op, email_ids, idx, succeeded_ids, failed_ids, outcome>>
    /\ UNCHANGED aux_vars

\* Variant of ContentFound: the first fetch that does not raise ends the loop.
ContentAssumed(r, content) == r # "EXC"

\* "if data and len(data) > 0 and self._check_email_content(data): return
\* data", for a fetch that has not raised.
ContentFound(r, content) == r # "EXC" /\ content

\* _fetch_email_with_formats, one format: content ends the loop, an exception
\* or an answer without content goes on with the next format. Afterwards
\* get_email_body_by_id returns the parsed email or None, and
\* download_attachment returns the saved attachment or raises ValueError.
FetchFormat ==
    /\ pc = "fetch"
    /\ \E r \in Results, content \in BOOLEAN, usable \in BOOLEAN :
        /\ cmds' = Append(cmds, [Cmd("FETCH", FetchFormats[idx], 0, r) EXCEPT
                                    !.data = IF r # "EXC" /\ content THEN "content" ELSE ""])
        /\ IF ContentFound(r, content)
           THEN /\ idx' = idx
                /\ IF usable THEN Return("email")
                   ELSE IF op = "body" THEN Return("none") ELSE Raise
           ELSE IF idx < Len(FetchFormats)
           THEN idx' = idx + 1 /\ Goto("fetch")
           ELSE /\ idx' = idx
                /\ IF op = "body" THEN Return("none") ELSE Raise
    /\ UNCHANGED <<op, email_ids, succeeded_ids, failed_ids, outcome>>
    /\ UNCHANGED aux_vars

\* list_folders: await imap.list('""', "*"); an exception propagates.
ListFolders ==
    /\ pc = "list_folders"
    /\ \E r \in Results :
        /\ cmds' = Append(cmds, Cmd("LIST", "", 0, r))
        /\ IF r = "EXC" THEN Raise ELSE Return("folders")
    /\ UNCHANGED <<op, email_ids, idx, succeeded_ids, failed_ids, outcome>>
    /\ UNCHANGED aux_vars

\* The IMAP command of create_folder, delete_folder and rename_folder.
FolderCommand(o) ==
    CASE o = "create_folder" -> "CREATE"
      [] o = "delete_folder" -> "DELETE"
      [] o = "rename_folder" -> "RENAME"

\* create_folder / delete_folder / rename_folder: (True, msg) iff answered OK.
FolderCmd ==
    /\ pc = "folder"
    /\ \E r \in Results :
        /\ cmds' = Append(cmds, Cmd(FolderCommand(op), "", 0, r))
        /\ IF r = "EXC" THEN Raise
           ELSE Return(IF IsOK(r) THEN "success" ELSE "failure")
    /\ UNCHANGED <<op, email_ids, idx, succeeded_ids, failed_ids, outcome>>
    /\ UNCHANGED aux_vars

\* get_email_message_id: fetch the MESSAGE-ID header field; return it or None.
FetchMessageId ==
    /\ pc = "fetch_message_id"
    /\ \E r \in Results, found \in BOOLEAN :
        /\ cmds' = Append(cmds, Cmd("FETCH", "MESSAGE-ID", 0, r))
        /\ IF r = "EXC" THEN Raise
           ELSE Return(IF found THEN "message_id" ELSE "none")
    /\ UNCHANGED <<op, email_ids, idx, succeeded_ids, failed_ids, outcome>>
    /\ UNCHANGED aux_vars

\* search_by_message_id: SEARCH HEADER MESSAGE-ID; no match returns None.
SearchMessageId ==
    /\ pc = "search_message_id"
    /\ \E r \in Results, found \in BOOLEAN :
        /\ cmds' = Append(cmds, Cmd("SEARCH", "MESSAGE-ID", 0, r))
        /\ IF r = "EXC" THEN Raise
           ELSE IF found THEN Goto("fetch_uid") ELSE Return("none")
    /\ UNCHANGED <<op, email_ids, idx, succeeded_ids, failed_ids, outcome>>
    /\ UNCHANGED aux_vars

\* search_by_message_id: FETCH (UID) of the first match; return the UID or None.
FetchUid ==
    /\ pc = "fetch_uid"
    /\ \E r \in Results, found \in BOOLEAN :
        /\ cmds' = Append(cmds, Cmd("FETCH", "UID", 0, r))
        /\ IF r = "EXC" THEN Raise
           ELSE Return(IF found THEN "uid" ELSE "none")
    /\ UNCHANGED <<op, email_ids, idx, succeeded_ids, failed_ids, outcome>>
    /\ UNCHANGED aux_vars

\* Variant of LogoutPropagates: logout outside a try/except.
LogoutRaises(r) == r = "EXC"

\* What an exception of imap.logout() does to the operation: the finally
\* block catches and logs it.
LogoutPropagates(r) == FALSE

\* finally: try: await imap.logout() except Exception: log
Logout ==
    /\ pc = "logout"
    /\ \E r \in {"OK", "EXC"} :
        /\ cmds' = Append(cmds, Cmd("LOGOUT", "", 0, r))
        /\ outcome' = IF exc \/ LogoutPropagates(r) THEN "raised"
                      ELSE IF op = "apply_label" THEN "running" ELSE "returned"
    /\ pc' = IF outcome' = "running" THEN "respond" ELSE "done"
    /\ UNCHANGED <<op, email_ids, idx, succeeded_ids, failed_ids, exc, result>>
    /\ UNCHANGED aux_vars

\* What delete_from_folder([label_uid], folder), that is delete_emails on a
\* batch of one, gives back to remove_label: the uid deleted, the uid failed,
\* or an exception (of connect, LOGIN, SELECT or EXPUNGE).
DeleteFromFolderResults == {"deleted", "failed", "EXC"}

\* Variant of NotFound: the lookup result is used whatever it is.
NotFoundIgnored(value) == FALSE

\* "if not message_id" / "if not label_uid": the lookup returned None, or a
\* Message-ID header with nothing after its name.
NotFound(value) == value \in {"none", ""}

\* remove_label, one iteration: get_email_message_id on INBOX, then
\* search_by_message_id and delete_from_folder on the label's folder, each
\* in a session of its own. The first two never raise and return a value
\* or None; an exception of the third leaves remove_label.
RemoveLabelItem ==
    /\ pc = "remove_label"
    /\ \E message_id \in {"none", "", "<a@x>", "<b@x>"}, label_uid \in {"none", "7", "8"},
          del \in DeleteFromFolderResults :
        LET label_folder == LabelFolder(request.label_name)
            get == CmdIn("get_email_message_id", email_ids[idx], idx, message_id, "INBOX")
            search == CmdIn("search_by_message_id", message_id, idx, label_uid, label_folder)
            delete == CmdIn("delete_from_folder", label_uid, idx, del, label_folder)
            calls == IF NotFound(message_id) THEN <<get>>
                     ELSE IF NotFound(label_uid) THEN <<get, search>>
                     ELSE <<get, search, delete>>
        IN  /\ cmds' = cmds \o calls
            /\ IF Len(calls) = 3 /\ del = "EXC"
               THEN /\ pc' = "done"
                    /\ outcome' = "raised"
                    /\ UNCHANGED <<idx, succeeded_ids, failed_ids>>
               ELSE /\ IF Len(calls) = 3 /\ del = "deleted" THEN Succeed ELSE Fail
                    /\ pc' = IF idx < Len(email_ids) THEN "remove_label" ELSE "respond"
                    /\ UNCHANGED outcome
    /\ UNCHANGED <<op, email_ids, exc, result>>
    /\ UNCHANGED aux_vars

\* apply_label and remove_label return EmailMoveResponse(success=
\* len(failed_ids) == 0, moved_ids, failed_ids, source_mailbox,
\* destination_folder).
Respond ==
    /\ pc = "respond"
    /\ result' =
        [success |-> Len(failed_ids) = 0,
         moved_ids |-> succeeded_ids,
         failed_ids |-> failed_ids,
         source_mailbox |-> IF op = "apply_label" THEN request.source_mailbox
                            ELSE LabelFolder(request.label_name),
         destination_folder |-> IF op = "apply_label" THEN ApplyLabelFolder ELSE ""]
    /\ pc' = "done"
    /\ outcome' = "returned"
    /\ UNCHANGED <<op, email_ids, idx, succeeded_ids, failed_ids, cmds, exc>>
    /\ UNCHANGED aux_vars

Next ==
    \/ Connect
    \/ Login
    \/ SendImapId
    \/ Select
    \/ StoreDeleted
    \/ Copy
    \/ Move
    \/ FallbackCopy
    \/ FallbackStore
    \/ Expunge
    \/ CountSearch
    \/ CheckSort
    \/ Sort
    \/ ListSearch
    \/ FetchDates
    \/ FetchHeaders
    \/ FetchFormat
    \/ ListFolders
    \/ FolderCmd
    \/ FetchMessageId
    \/ SearchMessageId
    \/ FetchUid
    \/ Logout
    \/ RemoveLabelItem
    \/ Respond

Spec == Init /\ [][Next]_vars

(***************************************************************************)
(* Vocabulary of the properties.                                           *)
(***************************************************************************)

Occurrences(seq, x) == Cardinality({i \in DOMAIN seq : seq[i] = x})

IsDistinct(seq) == \A i, j \in DOMAIN seq : seq[i] = seq[j] => i = j

\* The positions of cmds that hold a call of the command name.
Calls(name) == {i \in DOMAIN cmds : cmds[i].cmd = name}

\* The calls made for the item at position k of email_ids, in order.
ItemCmds(k) == SelectSeq(cmds, LAMBDA c : c.pos = k)

\* The elements of seq at the positions where mask is want, in order.
RECURSIVE Pick(_, _, _)
Pick(seq, mask, want) ==
    IF seq = <<>> THEN <<>>
    ELSE LET n == Len(seq)
             rest == Pick(SubSeq(seq, 1, n - 1), mask, want)
         IN IF mask[n] = want THEN Append(rest, seq[n]) ELSE rest

\* The operation has ended by returning to its caller.
Returned == pc = "done" /\ outcome = "returned"

\* The number of items of the batch already put in one of the two lists.
Processed == Len(succeeded_ids) + Len(failed_ids)

\* The session was set up without a fault: connect, LOGIN and SELECT all
\* answered OK.
SetupSucceeded ==
    \A name \in {"CONNECT", "LOGIN", "SELECT"} :
        \E i \in Calls(name) : cmds[i].res = "OK"

(***************************************************************************)
(* C1. When delete_emails, copy_emails, move_emails or remove_label        *)
(* returns for a non-empty batch of pairwise-distinct ids, every input id  *)
(* is in exactly one of the two returned lists, exactly once, and no other *)
(* id is in either list.                                                   *)
(***************************************************************************)
C1_Partition ==
    (Returned /\ op \in BatchOps /\ email_ids # <<>> /\ IsDistinct(email_ids))
    => \A id \in Ids :
        Occurrences(succeeded_ids, id) + Occurrences(failed_ids, id)
            = (IF id \in Range(email_ids) THEN 1 ELSE 0)

\* move_emails has returned a batch of two distinct ids, one in each list.
C1_Witness ==
    /\ Returned /\ op = "move"
    /\ Len(email_ids) = 2 /\ IsDistinct(email_ids)
    /\ Len(succeeded_ids) = 1 /\ Len(failed_ids) = 1

(***************************************************************************)
(* C2. In delete_emails, copy_emails and move_emails an item whose server  *)
(* command (the last one issued for it) raised or was answered non-OK is   *)
(* in the failed list and not in the succeeded list, and every item of the *)
(* input is attempted.                                                     *)
(***************************************************************************)
C2_FaultsAreFailures ==
    (Returned /\ op \in BulkOps /\ IsDistinct(email_ids))
    => \A k \in DOMAIN email_ids :
        /\ ItemCmds(k) # <<>>
        /\ ItemCmds(k)[Len(ItemCmds(k))].res # "OK"
            => /\ email_ids[k] \in Range(failed_ids)
               /\ email_ids[k] \notin Range(succeeded_ids)

(***************************************************************************)
(* C3. In delete_emails, copy_emails, move_emails and remove_label the     *)
(* succeeded list and the failed list are, at every moment, two            *)
(* complementary subsequences of the items processed so far, each in the   *)
(* order of the input.                                                     *)
(***************************************************************************)
C3_InputOrder ==
    op \in BatchOps
    => \E mask \in [1..Processed -> BOOLEAN] :
        /\ succeeded_ids = Pick(SubSeq(email_ids, 1, Processed), mask, TRUE)
        /\ failed_ids = Pick(SubSeq(email_ids, 1, Processed), mask, FALSE)

\* delete_emails has returned a batch of two in which the first item failed
\* and the second succeeded.
C3_Witness ==
    /\ Returned /\ op = "delete"
    /\ Len(email_ids) = 2 /\ IsDistinct(email_ids)
    /\ failed_ids = <<email_ids[1]>> /\ succeeded_ids = <<email_ids[2]>>

(***************************************************************************)
(* C4. Once connect, LOGIN and SELECT have succeeded, delete_emails,       *)
(* copy_emails and move_emails end by returning their lists, never by      *)
(* raising, whatever the per-item commands and EXPUNGE do.                 *)
(***************************************************************************)
C4_NeverRaises ==
    (pc = "done" /\ op \in BulkOps /\ SetupSucceeded) => outcome = "returned"

DataCommands ==
    {"SEARCH", "SORT", "FETCH_DATES", "FETCH_HEADERS", "STORE", "COPY", "MOVE", "EXPUNGE"}

\* Connecting raised, or LOGIN or SELECT raised or was answered non-OK.
SetupFailed ==
    \E i \in DOMAIN cmds :
        cmds[i].cmd \in {"CONNECT", "LOGIN", "SELECT"} /\ cmds[i].res # "OK"

(***************************************************************************)
(* C6. In metadata listing, count, delete, copy and move, once connecting, *)
(* LOGIN or SELECT has failed (raised or answered non-OK) the operation    *)
(* issues no SEARCH, SORT, FETCH, STORE, COPY, MOVE or EXPUNGE and ends    *)
(* with an error propagated to the caller.                                 *)
(***************************************************************************)
C6_SetupFaultIsFatal ==
    (op \in BulkOps \cup {"count", "list"} /\ SetupFailed)
    => /\ \A i \in DOMAIN cmds : cmds[i].cmd \notin DataCommands
       /\ pc = "done" => outcome = "raised"

\* The first call an operation makes after the identification step.
FirstAfterId(o) ==
    IF o \in SelectOps THEN "SELECT"
    ELSE IF o = "list_folders" THEN "LIST" ELSE FolderCommand(o)

(***************************************************************************)
(* C7. The identification step is best effort: whatever imap.id() and the  *)
(* raw fallback do, the operation goes on with the same next call and no   *)
(* exception or result comes from the step; the raw ID is sent at most     *)
(* once per session and only right after imap.id() was answered non-OK.    *)
(***************************************************************************)
C7_IdIsBestEffort ==
    op \in SessionOps
    => /\ Cardinality(Calls("ID")) <= 1
       /\ Cardinality(Calls("ID_RAW")) <= 1
       /\ \A i \in Calls("ID_RAW") :
            i > 1 /\ cmds[i - 1].cmd = "ID" /\ cmds[i - 1].res = "NO"
       /\ \A i \in DOMAIN cmds :
            (i > 1 /\ cmds[i - 1].cmd \in {"ID", "ID_RAW"} /\ cmds[i].cmd # "ID_RAW")
                => cmds[i].cmd = FirstAfterId(op)
       /\ (cmds # <<>> /\ cmds[Len(cmds)].cmd \in {"ID", "ID_RAW"})
            => /\ pc = (IF op \in SelectOps THEN "select" ELSE EnterBody(op))
               /\ ~exc
               /\ result = "none"

\* copy_emails has copied an id in a session whose raw ID fallback raised.
C7_Witness ==
    /\ Returned /\ op = "copy" /\ succeeded_ids # <<>>
    /\ \E i \in Calls("ID_RAW") : cmds[i].res = "EXC"

\* The STORE calls of the session that raised.
RaisedStores == {i \in Calls("STORE") : cmds[i].res = "EXC"}

\* seq without its element at position j.
Without(seq, j) == SubSeq(seq, 1, j - 1) \o SubSeq(seq, j + 1, Len(seq))

(***************************************************************************)
(* C8. delete_emails issues EXPUNGE at most once per batch and only after  *)
(* a STORE has been attempted for every input id; when it returns from a   *)
(* batch in which exactly one STORE raised, its lists are all other ids as *)
(* deleted in input order and that id as failed, with exactly one EXPUNGE. *)
(***************************************************************************)
C8_ExpungeOncePerBatch ==
    op = "delete"
    => /\ Cardinality(Calls("EXPUNGE")) <= 1
       /\ \A e \in Calls("EXPUNGE") : \A k \in DOMAIN email_ids :
            \E i \in Calls("STORE") : i < e /\ cmds[i].pos = k
       /\ (Returned /\ Cardinality(RaisedStores) = 1)
            => LET j == cmds[CHOOSE i \in RaisedStores : TRUE].pos
               IN  /\ succeeded_ids = Without(email_ids, j)
                   /\ failed_ids = <<email_ids[j]>>
                   /\ Cardinality(Calls("EXPUNGE")) = 1

\* delete_emails has returned from a batch of two whose first STORE raised
\* and whose second was answered non-OK.
C8_Witness ==
    /\ Returned /\ op = "delete" /\ Len(email_ids) = 2
    /\ \E i, j \in Calls("STORE") :
        /\ cmds[i].pos = 1 /\ cmds[i].res = "EXC"
        /\ cmds[j].pos = 2 /\ cmds[j].res = "NO"

(***************************************************************************)
(* C9. delete_emails issues no EXPUNGE when no item of the batch           *)
(* succeeded: every STORE failed, or the batch is empty.                   *)
(***************************************************************************)
C9_NoExpungeWithoutSuccess ==
    (op = "delete" /\ succeeded_ids = <<>>) => Calls("EXPUNGE") = {}

\* Whether the calls cs made for one item of move_emails moved it: MOVE was
\* answered OK, or COPY was answered OK and STORE did not raise.
MovedBy(cs) ==
    \/ (Len(cs) >= 1 /\ cs[1].res = "OK")
    \/ (Len(cs) = 3 /\ cs[2].res = "OK" /\ cs[3].res # "EXC")

(***************************************************************************)
(* C10. move_emails issues for each id at most three UID commands: MOVE    *)
(* first, COPY only if that MOVE raised or was answered non-OK, and STORE  *)
(* only after that COPY; an id is reported as moved iff MOVE was answered  *)
(* OK, or COPY was answered OK and STORE did not raise, and as failed      *)
(* otherwise.                                                              *)
(***************************************************************************)
C10_MoveThenFallback ==
    op = "move"
    => /\ \A k \in DOMAIN email_ids :
            LET cs == ItemCmds(k)
            IN  /\ Len(cs) <= 3
                /\ \A i \in DOMAIN cs :
                    /\ cs[i].cmd = <<"MOVE", "COPY", "STORE">>[i]
                    /\ cs[i].arg = email_ids[k]
                /\ Len(cs) >= 2 => cs[1].res # "OK"
                /\ Len(cs) = 3 => cs[2].res = "OK"
       /\ LET mask == [k \in 1..Processed |-> MovedBy(ItemCmds(k))]
          IN  /\ succeeded_ids = Pick(SubSeq(email_ids, 1, Processed), mask, TRUE)
              /\ failed_ids = Pick(SubSeq(email_ids, 1, Processed), mask, FALSE)

\* move_emails has returned from a batch of two: the first id moved by the
\* fallback after MOVE raised, the second failed because its STORE raised.
C10_Witness ==
    /\ Returned /\ op = "move" /\ Len(email_ids) = 2
    /\ succeeded_ids = <<email_ids[1]>> /\ failed_ids = <<email_ids[2]>>
    /\ ItemCmds(1)[1].res = "EXC" /\ Len(ItemCmds(1)) = 3
    /\ Len(ItemCmds(2)) = 3 /\ ItemCmds(2)[3].res = "EXC"

(***************************************************************************)
(* C11. move_emails issues EXPUNGE only after every id of the batch has    *)
(* been processed and every per-item command issued, at most once; once    *)
(* its try block is left it has issued exactly one EXPUNGE if the moved    *)
(* list is non-empty (whether by MOVE or by the COPY+STORE fallback) and   *)
(* none if the moved list is empty.                                        *)
(***************************************************************************)
C11_MoveExpungeOnce ==
    op = "move"
    => /\ \A e \in Calls("EXPUNGE") :
            /\ Processed = Len(email_ids)
            /\ \A i \in DOMAIN cmds : cmds[i].pos > 0 => i < e
       /\ pc \in {"logout", "done"}
            => Cardinality(Calls("EXPUNGE")) = (IF succeeded_ids # <<>> THEN 1 ELSE 0)

\* move_emails has returned from a batch of two: the first id failed, the
\* second was moved by the fallback, and one EXPUNGE followed.
C11_Witness ==
    /\ Returned /\ op = "move" /\ Len(email_ids) = 2
    /\ failed_ids = <<email_ids[1]>> /\ succeeded_ids = <<email_ids[2]>>
    /\ Len(ItemCmds(2)) = 3
    /\ Cardinality(Calls("EXPUNGE")) = 1

(***************************************************************************)
(* move_emails against two servers. The same batch is moved from the same  *)
(* mailbox on a server that accepts UID MOVE and on a server that rejects  *)
(* it, one loop iteration at a time on both. The servers answer as IMAP    *)
(* prescribes: a UID command naming no message of the mailbox is answered  *)
(* OK and changes nothing; EXPUNGE removes every message of the selected   *)
(* mailbox that is flagged \Deleted.                                       *)
(***************************************************************************)

Servers == {"with_move", "without_move"}

\* A message of the source mailbox: not there, there, there and flagged \Deleted.
MessageStates == {"absent", "present", "deleted"}

\* The messages of a mailbox that are there.
Present(source) == {id \in Ids : source[id] # "absent"}

\* The answer to imap.uid("move", id, destination) and the mailboxes after it.
ServerUidMove(box, id) ==
    IF box.move # "OK" THEN [res |-> box.move, box |-> box]
    ELSE [res |-> "OK",
          box |-> IF box.source[id] = "absent" THEN box
                  ELSE [box EXCEPT !.source[id] = "absent", !.dest[id] = @ + 1]]

\* The answer to imap.uid("copy", id, destination) and the mailboxes after it.
ServerUidCopy(box, id) ==
    [res |-> "OK",
     box |-> IF box.source[id] = "absent" THEN box
             ELSE [box EXCEPT !.dest[id] = @ + 1]]

\* The answer to imap.uid("store", id, "+FLAGS", "(\Deleted)") and the
\* mailboxes after it.
ServerUidStore(box, id) ==
    [res |-> "OK",
     box |-> IF box.source[id] = "absent" THEN box
             ELSE [box EXCEPT !.source[id] = "deleted"]]

\* The mailboxes after imap.expunge().
ServerExpunge(box) ==
    [box EXCEPT !.source =
        [id \in Ids |-> IF box.source[id] = "deleted" THEN "absent" ELSE box.source[id]]]

\* One iteration of the loop of move_emails for id, against the mailboxes
\* box and with the lists l: the mailboxes and the lists after it.
MoveEmail(box, l, id) ==
    LET moved(b) == [box |-> b, l |-> [l EXCEPT !.moved_ids = Append(@, id)]]
        failed(b) == [box |-> b, l |-> [l EXCEPT !.failed_ids = Append(@, id)]]
        m == ServerUidMove(box, id)
        c == ServerUidCopy(m.box, id)
        s == ServerUidStore(c.box, id)
    IN  IF MoveSucceeded(m.res) THEN moved(m.box)
        ELSE IF ~FallbackCopyOK(c.res) THEN failed(c.box)
        ELSE IF FallbackStoreOK(s.res) THEN moved(s.box)
        ELSE failed(s.box)

\* move_emails is called with a batch on two servers holding the same
\* mailboxes; the second answers UID MOVE with NO/BAD, or the call raises.
InitMove ==
    /\ op = "move"
    /\ email_ids \in SeqsUpTo(Ids, MaxLen)
    /\ pc = IF email_ids = <<>> THEN "move_expunge" ELSE "move_item"
    /\ idx = 1
    /\ succeeded_ids = Unused
    /\ failed_ids = Unused
    /\ cmds = Unused
    /\ exc = FALSE
    /\ result = "none"
    /\ outcome = "running"
    /\ \E source \in [Ids -> MessageStates], rejection \in {"NO", "EXC"} :
        server = [s \in Servers |->
                    [move |-> IF s = "with_move" THEN "OK" ELSE rejection,
                     source |-> source,
                     dest |-> [id \in Ids |-> 0]]]
    /\ lists = [s \in Servers |-> [moved_ids |-> <<>>, failed_ids |-> <<>>]]
    /\ listing = Unused
    /\ listed = Unused
    /\ request = Unused

\* One iteration of "for email_id in email_ids" on both servers.
MoveEmailsItem ==
    /\ pc = "move_item"
    /\ server' = [s \in Servers |-> MoveEmail(server[s], lists[s], email_ids[idx]).box]
    /\ lists' = [s \in Servers |-> MoveEmail(server[s], lists[s], email_ids[idx]).l]
    /\ idx' = idx + 1
    /\ pc' = IF idx < Len(email_ids) THEN "move_item" ELSE "move_expunge"
    /\ UNCHANGED <<op, email_ids, succeeded_ids, failed_ids, cmds, exc, result, outcome>>
    /\ UNCHANGED <<list_vars, request>>

\* After the loop: "if moved_ids: await imap.expunge()", then the lists are
\* returned, on both servers.
MoveEmailsExpunge ==
    /\ pc = "move_expunge"
    /\ server' = [s \in Servers |->
                    IF ExpungeNeeded("move", lists[s].moved_ids)
                    THEN ServerExpunge(server[s]) ELSE server[s]]
    /\ pc' = "done"
    /\ outcome' = "returned"
    /\ UNCHANGED <<op, email_ids, idx, succeeded_ids, failed_ids, cmds, exc, result, lists>>
    /\ UNCHANGED <<list_vars, request>>

NextMove ==
    \/ MoveEmailsItem
    \/ MoveEmailsExpunge

SpecMove == InitMove /\ [][NextMove]_vars

(***************************************************************************)
(* C12. For the same initial mailboxes, ids and destination, move_emails   *)
(* on a server that accepts UID MOVE and on a server that rejects it ends  *)
(* with the same messages in the source mailbox, the same messages in the  *)
(* destination, and the same moved and failed lists.                       *)
(***************************************************************************)
C12_SameFinalMailboxes ==
    pc = "done"
    => /\ Present(server["with_move"].source) = Present(server["without_move"].source)
       /\ server["with_move"].dest = server["without_move"].dest
       /\ lists["with_move"] = lists["without_move"]

(***************************************************************************)
(* get_emails_metadata_stream on a mailbox with contents. The messages     *)
(* that match the filters have a UID and a Date header, which may be       *)
(* missing or unparseable; the server answers UID SEARCH in ascending UID  *)
(* order, UID SORT as RFC 5256 prescribes (by sent date, by internal date  *)
(* where there is none, ties in ascending order, REVERSE reversing the     *)
(* date only) and UID FETCH in ascending UID order, with the UID token     *)
(* before or after the literal.                                            *)
(***************************************************************************)

\* Largest UID of the mailbox, latest date, largest page_size.
MaxUid == 3
MaxDate == 2
MaxPageSize == 2

\* A message: the date of its Date header (0: the header is missing or does
\* not parse) and the date the server received it.
Messages ==
    {m \in [date : 0..MaxDate, internal : 1..MaxDate] : m.date # 0 => m.internal = m.date}

\* The matching messages of a mailbox, by UID.
Mailboxes == UNION {[S -> Messages] : S \in SUBSET (1..MaxUid)}

\* The numbers of S in ascending order.
RECURSIVE Ascending(_)
Ascending(S) ==
    IF S = {} THEN <<>>
    ELSE LET least == CHOOSE x \in S : \A y \in S : x <= y
         IN <<least>> \o Ascending(S \ {least})

\* seq[start:end] of Python: positions counted from 0, end excluded, a
\* negative position counted from the end of the list, both clipped.
Slice(seq, start, end) ==
    LET clip(i) == IF i < 0 THEN (IF i + Len(seq) < 0 THEN 0 ELSE i + Len(seq))
                   ELSE IF i < Len(seq) THEN i ELSE Len(seq)
    IN SubSeq(seq, clip(start) + 1, clip(end))

\* list.sort(key=..., reverse=...) on a list of <<item, key>>: stable, also
\* when reverse (items with equal keys keep their order).
RECURSIVE ListSort(_, _)
ListSort(pairs, reverse) ==
    IF pairs = <<>> THEN <<>>
    ELSE LET n == Len(pairs)
             x == pairs[n]
             rest == ListSort(SubSeq(pairs, 1, n - 1), reverse)
             k == Cardinality({i \in DOMAIN rest :
                    IF reverse THEN rest[i][2] >= x[2] ELSE rest[i][2] <= x[2]})
         IN SubSeq(rest, 1, k) \o <<x>> \o SubSeq(rest, k + 1, Len(rest))

\* The first components of a list of pairs.
Firsts(pairs) == [i \in DOMAIN pairs |-> pairs[i][1]]

\* The answer to imap.uid_search(*criteria): the UIDs, ascending.
ServerSearch(box) == Ascending(DOMAIN box)

\* The answer to imap.uid("sort", "(REVERSE DATE)" or "(DATE)", ...).
ServerSort(box, order) ==
    LET uids == Ascending(DOMAIN box)
        key(m) == IF m.date # 0 THEN m.date ELSE m.internal
    IN Firsts(ListSort([i \in DOMAIN uids |-> <<uids[i], key(box[uids[i]])>>],
                       order = "desc"))

\* The data of a FETCH response for a list of messages <<uid, literal>>. Its
\* items are bytes (a line of text, in which "UID <n>" is found or not,
\* uid = 0) and bytearrays (a literal); the UID of a message is in the FETCH
\* line before its literal or in the closing line after it.
RECURSIVE FetchData(_, _)
FetchData(messages, uid_first) ==
    IF messages = <<>> THEN <<>>
    ELSE LET bytes(uid) == [kind |-> "bytes", uid |-> uid, data |-> 0]
             literal == [kind |-> "bytearray", uid |-> 0, data |-> messages[1][2]]
         IN (IF uid_first
             THEN <<bytes(messages[1][1]), literal, bytes(0)>>
             ELSE <<bytes(0), literal, bytes(messages[1][1])>>)
            \o FetchData(Tail(messages), uid_first)

\* The answer to imap.uid("fetch", uid_list, "BODY.PEEK[HEADER...]"): the
\* messages of uid_list that exist, in ascending UID order, each with its
\* Date header.
ServerFetch(box, uid_list, uid_first) ==
    LET uids == Ascending(Range(uid_list) \cap DOMAIN box)
    IN FetchData([i \in DOMAIN uids |-> <<uids[i], box[uids[i]].date>>], uid_first)

\* Python's None, and a value that is not None.
None == <<>>
Some(x) == <<x>>

\* Variant of UidAfterData: a UID token is always taken as the start of the
\* next message.
UidAlwaysFirst(pending) == FALSE

\* "if pending_date is not None" / "if pending_headers is not None": the UID
\* found in a bytes item closes the message whose literal came before it.
UidAfterData(pending) == pending # None

\* The loop of _batch_fetch_dates over the items of the response: the list of
\* <<uid, Date header>> it pairs up, with its pending_uid and pending_date at
\* the end. (The header is turned into a datetime when its item is read; the
\* conversion is ParseDateFromHeader below.)
RECURSIVE ParseDates(_)
ParseDates(data) ==
    IF data = <<>>
    THEN [results |-> <<>>, pending_uid |-> None, pending_date |-> None]
    ELSE LET st == ParseDates(SubSeq(data, 1, Len(data) - 1))
             item == data[Len(data)]
         IN  IF item.kind = "bytearray"
             THEN IF st.pending_uid # None
                  THEN [results |-> Append(st.results, <<st.pending_uid[1], item.data>>),
                        pending_uid |-> None, pending_date |-> None]
                  ELSE [st EXCEPT !.pending_date = Some(item.data)]
             ELSE IF item.uid = 0 THEN st
             ELSE IF UidAfterData(st.pending_date)
                  THEN [st EXCEPT !.results = Append(@, <<item.uid, st.pending_date[1]>>),
                                  !.pending_date = None]
                  ELSE [st EXCEPT !.pending_uid = Some(item.uid)]

\* The loop of _batch_fetch_headers over the items of the response: the list
\* of <<uid, headers>> handed to _append_header_metadata.
RECURSIVE ParseHeaders(_)
ParseHeaders(data) ==
    IF data = <<>>
    THEN [results |-> <<>>, pending_uid |-> None, pending_headers |-> None]
    ELSE LET st == ParseHeaders(SubSeq(data, 1, Len(data) - 1))
             item == data[Len(data)]
         IN  IF item.kind = "bytearray"
             THEN IF st.pending_uid # None
                  THEN [results |-> Append(st.results, <<st.pending_uid[1], item.data>>),
                        pending_uid |-> None, pending_headers |-> None]
                  ELSE [st EXCEPT !.pending_headers = Some(item.data)]
             ELSE IF item.uid = 0 THEN st
             ELSE IF UidAfterData(st.pending_headers)
                  THEN [st EXCEPT !.results = Append(@, <<item.uid, st.pending_headers[1]>>),
                                  !.pending_headers = None]
                  ELSE [st EXCEPT !.pending_uid = Some(item.uid)]

\* datetime.now(timezone.utc) when the i-th literal of a response is parsed:
\* later than every date of the mailbox; the clock may or may not have ticked
\* since the literal before.
Now(i, ticks) == MaxDate + 1 + (IF ticks THEN i ELSE 0)

\* _parse_date_from_header: the date, or the current time if there is none.
ParseDateFromHeader(date_str, now) == IF date_str # 0 THEN date_str ELSE now

\* A header block on which BytesParser or a header lookup raises.
Malformed == 0 - 1

\* Variant of ParseHeaderToMetadata: a header block that cannot be parsed
\* gives a message dated now.
ParseHeaderKeepsAll(email_id, raw_headers, now) ==
    Some(<<email_id, ParseDateFromHeader(IF raw_headers = Malformed THEN 0 ELSE raw_headers, now)>>)

\* _parse_header_to_metadata: the metadata (email_id, date), or None when
\* anything raises while the block is parsed ("except Exception: return None").
ParseHeaderToMetadata(email_id, raw_headers, now) ==
    IF raw_headers = Malformed THEN None
    ELSE Some(<<email_id, ParseDateFromHeader(raw_headers, now)>>)

\* _append_header_metadata: "if metadata: results.append(metadata)".
AppendHeaderMetadata(results, uid, headers, now) ==
    LET metadata == ParseHeaderToMetadata(uid, headers, now)
    IN IF metadata # None THEN Append(results, metadata[1]) ELSE results

\* The results list of _batch_fetch_headers after the calls of
\* _append_header_metadata for the pairs <<uid, headers>> of its loop.
RECURSIVE HeaderMetadata(_, _)
HeaderMetadata(handed, ticks) ==
    IF handed = <<>> THEN <<>>
    ELSE LET n == Len(handed)
         IN AppendHeaderMetadata(HeaderMetadata(SubSeq(handed, 1, n - 1), ticks),
                                 handed[n][1], handed[n][2], Now(n, ticks))

\* _batch_fetch_dates / _batch_fetch_headers (the email_id and the date of
\* each metadata dictionary): a list of <<uid, datetime>>.
BatchFetchDates(box, uid_first, uid_list, ticks) ==
    IF uid_list = <<>> THEN <<>>
    ELSE LET results == ParseDates(ServerFetch(box, uid_list, uid_first)).results
         IN [i \in DOMAIN results |->
                <<results[i][1], ParseDateFromHeader(results[i][2], Now(i, ticks))>>]

BatchFetchHeaders(box, uid_first, uid_list, ticks) ==
    IF uid_list = <<>> THEN <<>>
    ELSE HeaderMetadata(ParseHeaders(ServerFetch(box, uid_list, uid_first)).results, ticks)

\* Variant of MatchPageOrder: the ids of the page's id list are yielded.
YieldPageList(metadata_list, page_uids) == page_uids

\* Variant of MatchPageOrder: the metadata is yielded in the order of the FETCH
\* response.
KeepResponseOrder(metadata_list, page_uids) == Firsts(metadata_list)

\* The position uid_order.get gives an email_id that is not in the page.
Unmatched == 999999

\* uid_order = {uid: i for i, uid in enumerate(page_uids)} and
\* metadata_list.sort(key=lambda m: uid_order.get(m["email_id"], 999999)),
\* then the email ids in the order they are yielded.
MatchPageOrder(metadata_list, page_uids) ==
    LET at(uid) == {i \in DOMAIN page_uids : page_uids[i] = uid}
        uid_order(uid) == IF at(uid) = {} THEN Unmatched
                          ELSE CHOOSE i \in at(uid) : \A j \in at(uid) : j <= i
    IN Firsts(ListSort([i \in DOMAIN metadata_list |->
                          <<metadata_list[i][1], uid_order(metadata_list[i][1])>>],
                       FALSE))

\* get_emails_metadata_stream once the session is set up: the email ids it
\* yields, on a server that advertises SORT (and answers it) or not.
GetEmailsMetadataStream(has_sort, box, uid_first, page, page_size, order, ticks) ==
    LET start == (page - 1) * page_size
        end == start + page_size
        sorted_uids == ServerSort(box, order)
        found_ids == ServerSearch(box)
        date_tuples == BatchFetchDates(box, uid_first, found_ids, ticks)
        all_metadata == ListSort(BatchFetchHeaders(box, uid_first, found_ids, ticks),
                                 order = "desc")
        page_uids == IF has_sort THEN Slice(sorted_uids, start, end)
                     ELSE Firsts(Slice(ListSort(date_tuples, order = "desc"), start, end))
    IN  IF has_sort /\ sorted_uids = <<>> THEN <<>>
        ELSE IF ~has_sort /\ found_ids = <<>> THEN <<>>
        ELSE IF ~has_sort /\ date_tuples = <<>> THEN Firsts(Slice(all_metadata, start, end))
        ELSE IF page_uids = <<>> THEN <<>>
        ELSE MatchPageOrder(BatchFetchHeaders(box, uid_first, page_uids, ticks), page_uids)

\* The two servers a listing is run against: one advertises SORT and answers
\* UID SORT, the other does not advertise it.
ListServers == {"sort", "fallback"}

\* A listing is requested, page after page, of a mailbox that does not
\* change, from both servers, with the same page_size and order.
InitList ==
    /\ op = "list"
    /\ email_ids = Unused
    /\ pc = "list_all"
    /\ idx = 1
    /\ succeeded_ids = Unused
    /\ failed_ids = Unused
    /\ cmds = Unused
    /\ exc = FALSE
    /\ result = "none"
    /\ outcome = "running"
    /\ server = Unused
    /\ lists = Unused
    /\ request = Unused
    /\ listing \in [box : Mailboxes, uid_first : BOOLEAN, order : {"desc", "asc"},
                    page_size : 1..MaxPageSize]
    /\ listed = [s \in ListServers |-> [all |-> <<>>, pages |-> <<>>]]

\* A server has answered a page request with an empty page.
Exhausted(l) == l.pages # <<>> /\ l.pages[Len(l.pages)] = <<>>

\* get_emails_metadata_stream(page=1, page_size=<number of matches>) on both
\* servers.
ListAll ==
    /\ pc = "list_all"
    /\ \E ticks \in BOOLEAN :
        listed' = [s \in ListServers |->
            [listed[s] EXCEPT !.all =
                GetEmailsMetadataStream(s = "sort", listing.box, listing.uid_first,
                    1, Cardinality(DOMAIN listing.box), listing.order, ticks)]]
    /\ pc' = "list_page"
    /\ UNCHANGED <<op, email_ids, idx, succeeded_ids, failed_ids, cmds, exc, result, outcome>>
    /\ UNCHANGED <<move_vars, listing, request>>

\* get_emails_metadata_stream(page=idx, page_size=page_size) on each server
\* that has not yet answered with an empty page.
ListPage ==
    /\ pc = "list_page"
    /\ \E ticks \in BOOLEAN :
        listed' = [s \in ListServers |->
            IF Exhausted(listed[s]) THEN listed[s]
            ELSE [listed[s] EXCEPT !.pages = Append(@,
                    GetEmailsMetadataStream(s = "sort", listing.box, listing.uid_first,
                        idx, listing.page_size, listing.order, ticks))]]
    /\ idx' = idx + 1
    /\ pc' = IF \A s \in ListServers : Exhausted(listed'[s]) THEN "done" ELSE "list_page"
    /\ outcome' = IF pc' = "done" THEN "returned" ELSE "running"
    /\ UNCHANGED <<op, email_ids, succeeded_ids, failed_ids, cmds, exc, result>>
    /\ UNCHANGED <<move_vars, listing, request>>

NextList ==
    \/ ListAll
    \/ ListPage

SpecList == InitList /\ [][NextList]_vars

\* The concatenation of a list of lists.
RECURSIVE Concat(_)
Concat(seqs) == IF seqs = <<>> THEN <<>> ELSE seqs[1] \o Concat(Tail(seqs))

(***************************************************************************)
(* C13. For an unchanged mailbox and fixed filters, page_size and order,   *)
(* the pages 1, 2, 3, ... of get_emails_metadata_stream up to the first    *)
(* empty page, concatenated, are the listing of page 1 with page_size the  *)
(* number of matches, in the same order, on the SORT path and on the       *)
(* fallback path.                                                          *)
(***************************************************************************)
C13_PagesConcatenate ==
    pc = "done" => \A s \in ListServers : Concat(listed[s].pages) = listed[s].all

(***************************************************************************)
(* C14. For the same mailbox, filters, page, page_size and order the       *)
(* server that advertises SORT and the server that does not yield the same *)
(* sequence of email ids, also when messages carry the same date.          *)
(***************************************************************************)
C14_SortEqualsFallback ==
    pc # "list_all"
    => /\ listed["sort"].all = listed["fallback"].all
       /\ \A i \in DOMAIN listed["sort"].pages \cap DOMAIN listed["fallback"].pages :
            listed["sort"].pages[i] = listed["fallback"].pages[i]

\* The calls get_emails_metadata_stream makes on its fallback path, in order.
FallbackCalls == <<"SEARCH", "FETCH_DATES", "FETCH_HEADERS", "LOGOUT">>

\* The calls made after position i are calls of the fallback path, in its
\* order, starting with UID SEARCH.
FallbackFollows(i) ==
    LET after == SubSeq(cmds, i + 1, Len(cmds))
    IN  /\ after # <<>> => after[1].cmd = "SEARCH"
        /\ \A j, k \in DOMAIN after :
            j < k => \E a, b \in DOMAIN FallbackCalls :
                a < b /\ after[j].cmd = FallbackCalls[a] /\ after[k].cmd = FallbackCalls[b]
        /\ after = <<>> => pc = "search" /\ ~exc /\ result = "none"

(***************************************************************************)
(* C15. When the server advertises SORT and the UID SORT command raises,   *)
(* get_emails_metadata_stream goes on in the same session with the         *)
(* fallback path: UID SEARCH comes next, then the date fetch and the       *)
(* header fetch, and the exception of SORT does not reach the caller (the  *)
(* call raises only if UID SEARCH raises).                                 *)
(***************************************************************************)
C15_SortErrorFallsBack ==
    op = "list"
    => \A i \in Calls("SORT") : cmds[i].res = "EXC"
        => /\ FallbackFollows(i)
           /\ pc = "done"
                => outcome = (IF \E j \in Calls("SEARCH") : cmds[j].res = "EXC"
                              THEN "raised" ELSE "returned")

\* A listing has returned a page from the fallback path after UID SORT raised.
C15_Witness ==
    /\ Returned /\ op = "list" /\ result = "page"
    /\ \E i \in Calls("SORT") : cmds[i].res = "EXC"
    /\ Calls("FETCH_DATES") # {} /\ Calls("FETCH_HEADERS") # {}

(***************************************************************************)
(* C16. When the server advertises SORT and UID SORT is answered with an   *)
(* empty or missing response, get_emails_metadata_stream falls through to  *)
(* the fallback path: a UID SEARCH is issued next.                         *)
(***************************************************************************)
C16_EmptySortFallsBack ==
    op = "list"
    => \A i \in Calls("SORT") : (cmds[i].res # "EXC" /\ cmds[i].arg = "empty")
        => /\ i = Len(cmds) => pc = "search"
           /\ i < Len(cmds) => cmds[i + 1].cmd = "SEARCH"

(***************************************************************************)
(* C18. get_emails_metadata_stream issues UID SORT if and only if SORT is  *)
(* in the capability set read from the session: after a set with SORT the  *)
(* next call is UID SORT; after a set without SORT, an empty set or a      *)
(* reading that raises, no exception arises, the next call is UID SEARCH   *)
(* and no UID SORT is issued.                                              *)
(***************************************************************************)
C18_SortOnlyIfAdvertised ==
    op = "list"
    => /\ Cardinality(Calls("capabilities")) <= 1
       /\ \A i \in Calls("SORT") : i > 1 /\ cmds[i - 1].cmd = "capabilities"
       /\ \A i \in Calls("capabilities") :
            LET advertised == cmds[i].res = "OK" /\ "SORT" \in cmds[i].arg
            IN  /\ i = Len(cmds) => (pc = IF advertised THEN "sort" ELSE "search") /\ ~exc
                /\ i < Len(cmds) => cmds[i + 1].cmd = IF advertised THEN "SORT" ELSE "SEARCH"

\* A listing has returned a page from the fallback path after reading the
\* capabilities raised.
C18_Witness ==
    /\ Returned /\ op = "list" /\ result = "page"
    /\ \E i \in Calls("capabilities") : cmds[i].res = "EXC"
    /\ Calls("SORT") = {} /\ Calls("SEARCH") # {}

\* The matching messages of the mailbox as <<uid, Date header>>, in the order
\* the server answers a FETCH.
FetchedMessages ==
    LET uids == Ascending(DOMAIN listing.box)
    IN [i \in DOMAIN uids |-> <<uids[i], listing.box[uids[i]].date>>]

(***************************************************************************)
(* C17. For _batch_fetch_dates and _batch_fetch_headers, the response that *)
(* has each UID in the text before its literal and the response that has   *)
(* it in the text after its literal are parsed into the same list of       *)
(* (uid, payload) pairs: one pair per message, in message order, each UID  *)
(* with its own payload.                                                   *)
(***************************************************************************)
C17_UidBeforeOrAfter ==
    /\ ParseDates(FetchData(FetchedMessages, TRUE)).results = FetchedMessages
    /\ ParseDates(FetchData(FetchedMessages, FALSE)).results = FetchedMessages
    /\ ParseHeaders(FetchData(FetchedMessages, TRUE)).results = FetchedMessages
    /\ ParseHeaders(FetchData(FetchedMessages, FALSE)).results = FetchedMessages

\* The fallback path has listed a mailbox of at least two messages, with
\* different Date headers, from responses that have the UID after the literal.
C17_Witness ==
    /\ pc = "done" /\ ~listing.uid_first
    /\ Len(listed["fallback"].all) >= 2
    /\ \E u, v \in DOMAIN listing.box : listing.box[u].date # listing.box[v].date

(***************************************************************************)
(* C19. apply_label(ids, name, source) selects the source mailbox and      *)
(* issues for each id exactly one command, a UID COPY of that id to the    *)
(* folder "Labels/" + name; when it returns, its result has that folder as *)
(* destination_folder, the source as source_mailbox, as moved_ids the ids  *)
(* whose COPY was answered OK and as failed_ids the others, in input       *)
(* order, and success true iff failed_ids is empty.                        *)
(***************************************************************************)
C19_ApplyLabelCopies ==
    op = "apply_label"
    => /\ \A i \in DOMAIN cmds :
            /\ cmds[i].cmd \notin {"STORE", "MOVE", "EXPUNGE"}
            /\ cmds[i].cmd = "SELECT" => cmds[i].folder = request.source_mailbox
            /\ cmds[i].cmd = "COPY"
                => /\ cmds[i].folder = "Labels/" \o request.label_name
                   /\ \E j \in Calls("SELECT") : j < i
       /\ \A k \in 1..Processed :
            /\ Len(ItemCmds(k)) = 1
            /\ ItemCmds(k)[1].cmd = "COPY"
            /\ ItemCmds(k)[1].arg = email_ids[k]
       /\ Returned
            => LET copied == [k \in DOMAIN email_ids |-> ItemCmds(k)[1].res = "OK"]
               IN  /\ Processed = Len(email_ids)
                   /\ result.destination_folder = "Labels/" \o request.label_name
                   /\ result.source_mailbox = request.source_mailbox
                   /\ result.moved_ids = Pick(email_ids, copied, TRUE)
                   /\ result.failed_ids = Pick(email_ids, copied, FALSE)
                   /\ result.success = (result.failed_ids = <<>>)

\* apply_label has returned from a batch of two: the first id copied, the
\* second not, success false.
C19_Witness ==
    /\ Returned /\ op = "apply_label" /\ Len(email_ids) = 2
    /\ result.moved_ids = <<email_ids[1]>> /\ result.failed_ids = <<email_ids[2]>>
    /\ ~result.success

\* The lookup for the item at position k of remove_label found nothing: no
\* Message-ID, or no message with it in the label folder.
LookupFailed(k) ==
    LET cs == ItemCmds(k)
    IN cs # <<>> /\ cs[Len(cs)].cmd # "delete_from_folder" /\ cs[Len(cs)].res \in {"none", ""}

(***************************************************************************)
(* C20. In remove_label the calls for an id are get_email_message_id on    *)
(* INBOX, then, only if it returned a Message-ID, search_by_message_id of  *)
(* that Message-ID in the label folder, then, only if that returned a UID, *)
(* delete_from_folder of exactly that UID in the label folder. An id whose *)
(* lookup found nothing is in failed_ids, no delete is issued for it, the  *)
(* next id is processed, and the result returned has success false.        *)
(***************************************************************************)
C20_RemoveLabelLookups ==
    op = "remove_label"
    => /\ \A k \in DOMAIN email_ids :
            LET cs == ItemCmds(k)
                label_folder == "Labels/" \o request.label_name
            IN  /\ Len(cs) <= 3
                /\ Len(cs) >= 1
                    => /\ cs[1].cmd = "get_email_message_id"
                       /\ cs[1].arg = email_ids[k] /\ cs[1].folder = "INBOX"
                /\ Len(cs) >= 2
                    => /\ cs[1].res \notin {"none", ""}
                       /\ cs[2].cmd = "search_by_message_id"
                       /\ cs[2].arg = cs[1].res /\ cs[2].folder = label_folder
                /\ Len(cs) = 3
                    => /\ cs[2].res # "none"
                       /\ cs[3].cmd = "delete_from_folder"
                       /\ cs[3].arg = cs[2].res /\ cs[3].folder = label_folder
                /\ LookupFailed(k)
                    => /\ Processed >= k
                       /\ k < Len(email_ids)
                            => ItemCmds(k + 1) # <<>> \/ (pc = "remove_label" /\ idx = k + 1)
       /\ LET removed == [k \in 1..Processed |->
                            Len(ItemCmds(k)) = 3 /\ ItemCmds(k)[3].res = "deleted"]
          IN  /\ succeeded_ids = Pick(SubSeq(email_ids, 1, Processed), removed, TRUE)
              /\ failed_ids = Pick(SubSeq(email_ids, 1, Processed), removed, FALSE)
       /\ Returned
            => /\ result.moved_ids = succeeded_ids /\ result.failed_ids = failed_ids
               /\ result.success = (failed_ids = <<>>)
               /\ (\E k \in DOMAIN email_ids : LookupFailed(k)) => ~result.success

\* remove_label has returned from a batch of two: for the first id no message
\* was found in the label folder, the second was removed as UID 8 of it.
C20_Witness ==
    /\ Returned /\ op = "remove_label" /\ Len(email_ids) = 2
    /\ Len(ItemCmds(1)) = 2 /\ LookupFailed(1)
    /\ Len(ItemCmds(2)) = 3 /\ ItemCmds(2)[3].arg = "8"
    /\ result.moved_ids = <<email_ids[2]>> /\ ~result.success

(***************************************************************************)
(* Single calls of the functions that hold no session of their own: the    *)
(* call's arguments are in request, what it returns in result.             *)
(***************************************************************************)

\* Longest folder list that list_folders hands to list_labels.
MaxFolders == 2

\* str.startswith
StartsWith(str, prefix) ==
    Len(str) >= Len(prefix) /\ SubSeq(str, 1, Len(prefix)) = prefix

\* Folder(name, delimiter, flags): the folders of a mailbox listing.
Folders ==
    [name : {"INBOX", "Labels", "Labels/", "Labels/Important", "Labels/W", "MyLabels/Work"},
     delimiter : {"/"},
     flags : {<<>>, <<"\\HasNoChildren">>}]

\* Variant of LabelNameKept: every folder with the prefix yields a label.
LabelNameAny(label_name) == TRUE

\* "if label_name:": the folder named just "Labels/" is skipped.
LabelNameKept(label_name) == label_name # ""

\* The loop of list_labels over the folders that list_folders returned.
RECURSIVE Labels(_)
Labels(folders) ==
    IF folders = <<>> THEN <<>>
    ELSE LET n == Len(folders)
             folder == folders[n]
             labels == Labels(SubSeq(folders, 1, n - 1))
             label_name == SubSeq(folder.name, 8, Len(folder.name))
         IN IF StartsWith(folder.name, "Labels/") /\ LabelNameKept(label_name)
            THEN Append(labels, [name |-> label_name, full_path |-> folder.name,
                                 delimiter |-> folder.delimiter, flags |-> folder.flags])
            ELSE labels

\* The functions called, and the arguments each is called with.
CallOps ==
    {"list_labels", "tool", "_build_search_criteria", "_parse_list_response",
     "_quote_mailbox"}

\* Longest mailbox name handed to _quote_mailbox.
MaxNameLen == 3

\* All strings of at most n characters of the alphabet.
RECURSIVE StringsUpTo(_, _)
StringsUpTo(alphabet, n) ==
    IF n = 0 THEN {""}
    ELSE LET shorter == StringsUpTo(alphabet, n - 1)
         IN shorter \cup {str \o c : str \in shorter, c \in alphabet}

\* Mailbox names: a letter, the backslash and the double quote.
MailboxNames == StringsUpTo({"a", "\\", "\""}, MaxNameLen)

\* The commands that are handed a mailbox name.
MailboxCommands == {"SELECT", "COPY", "MOVE", "CREATE", "DELETE", "RENAME", "APPEND"}

\* str.replace(old, new) for one character old.
RECURSIVE Replace(_, _, _)
Replace(str, old, new) ==
    IF str = "" THEN ""
    ELSE (IF SubSeq(str, 1, 1) = old THEN new ELSE SubSeq(str, 1, 1))
         \o Replace(SubSeq(str, 2, Len(str)), old, new)

\* Variant of QuoteMailbox: the name between quotes as it is.
QuoteOnly(mailbox) == "\"" \o mailbox \o "\""

\* _quote_mailbox: escape backslashes, then double quotes, and wrap in quotes.
QuoteMailbox(mailbox) ==
    LET escaped == Replace(Replace(mailbox, "\\", "\\\\"), "\"", "\\\"")
    IN "\"" \o escaped \o "\""

\* Lines of a LIST response: the text, and the folder the line stands for
\* (None for a line that stands for no folder).
ListLines ==
    {[text |-> "", folder |-> None],
     [text |-> "LIST completed.", folder |-> None],
     [text |-> "\\HasNoChildren \"/\" \"INBOX\"", folder |-> None],
     [text |-> "(\\Noselect \"/\" \"Old\"", folder |-> None],
     [text |-> "(\\HasNoChildren) \"/\" INBOX", folder |-> None],
     [text |-> "(\\HasNoChildren)", folder |-> None],
     [text |-> "(\\HasNoChildren) \"/\" \"INBOX\"",
      folder |-> Some([name |-> "INBOX", delimiter |-> "/", flags |-> <<"\\HasNoChildren">>])],
     [text |-> "(\\HasNoChildren \\Sent) \"/\" \"Sent Items\"",
      folder |-> Some([name |-> "Sent Items", delimiter |-> "/",
                       flags |-> <<"\\HasNoChildren", "\\Sent">>])],
     [text |-> "() \".\" \"Labels.Work\"",
      folder |-> Some([name |-> "Labels.Work", delimiter |-> ".", flags |-> <<>>])]}

\* The items of folder_data: a str, or bytes that are or are not UTF-8 text.
ListItems == [line : ListLines, type : {"str", "bytes"}, utf8 : BOOLEAN]

\* The parameters of _build_search_criteria, and the keywords that the
\* tool list_emails_metadata passes on besides.
Parameters == {"before", "since", "subject", "body", "text", "from_address", "to_address"}
FlagFilters == {"seen", "flagged", "answered"}

\* Calls _build_search_criteria(**keywords): a filter left out or None is not
\* supplied; request.passed holds the flag filters passed as keywords.
SearchCalls ==
    {kw \in [before : {None, Some([year |-> 2023, month |-> 1, day |-> 1])},
             since : {None, Some([year |-> 2024, month |-> 12, day |-> 25])},
             subject : {None, Some("Test")},
             body : {None, Some("Text")},
             text : {None},
             from_address : {None, Some("a@example.com")},
             to_address : {None, Some("b@example.com")},
             seen : {None, Some(TRUE), Some(FALSE)},
             flagged : {None, Some(TRUE), Some(FALSE)},
             answered : {None, Some(TRUE), Some(FALSE)},
             passed : SUBSET FlagFilters] :
        \A k \in FlagFilters \ kw.passed : kw[k] = None}

\* The tools of app.py that open with _check_folder_management_enabled().
FolderTools ==
    {"list_folders", "move_emails", "copy_emails", "create_folder", "delete_folder",
     "rename_folder", "list_labels", "apply_label", "remove_label", "get_email_labels",
     "create_label", "delete_label"}

\* The tools of app.py that dispatch a handler.
Tools ==
    FolderTools \cup {"list_emails_metadata", "get_emails_content", "send_email",
                      "delete_emails", "download_attachment"}

CallArguments(o) ==
    CASE o = "list_labels" -> [folders : SeqsUpTo(Folders, MaxFolders)]
      [] o = "_build_search_criteria" -> SearchCalls
      [] o = "_quote_mailbox" -> [command : MailboxCommands, mailbox : MailboxNames]
      [] o = "_parse_list_response" -> [folder_data : SeqsUpTo(ListItems, MaxFolders)]
      [] o = "tool" -> [tool : Tools,
                        enable_folder_management : BOOLEAN,
                        enable_attachment_download : BOOLEAN]

InitCalls ==
    /\ op \in CallOps
    /\ request \in CallArguments(op)
    /\ result = "none"
    /\ outcome = "running"
    /\ email_ids = <<>>
    /\ pc = "call"
    /\ idx = 1
    /\ succeeded_ids = <<>>
    /\ failed_ids = <<>>
    /\ cmds = <<>>
    /\ exc = FALSE
    /\ server = Unused
    /\ lists = Unused
    /\ listing = Unused
    /\ listed = Unused

\* What a call leaves alone.
call_frame ==
    <<op, request, email_ids, idx, succeeded_ids, failed_ids, cmds, exc, move_vars, list_vars>>

\* The call returns v.
Returns(v) ==
    /\ pc = "call"
    /\ pc' = "done"
    /\ result' = v
    /\ outcome' = "returned"
    /\ UNCHANGED call_frame

\* The call raises the exception e.
Raises(e) ==
    /\ pc = "call"
    /\ pc' = "done"
    /\ result' = e
    /\ outcome' = "raised"
    /\ UNCHANGED call_frame

\* list_labels: request.folders is what its list_folders call returns,
\* unless that call raises.
ListLabels ==
    /\ op = "list_labels"
    /\ \/ Returns(Labels(request.folders))
       \/ Raises("Exception")

\* str.upper on the letters of the month abbreviations.
RECURSIVE Upper(_)
Upper(str) ==
    IF str = "" THEN ""
    ELSE LET c == SubSeq(str, 1, 1)
             lower == <<"a", "b", "c", "e", "g", "l", "n", "o", "p", "r", "t", "u", "v", "y">>
             upper == <<"A", "B", "C", "E", "G", "L", "N", "O", "P", "R", "T", "U", "V", "Y">>
             hits == {i \in DOMAIN lower : lower[i] = c}
         IN (IF hits = {} THEN c ELSE upper[CHOOSE i \in hits : TRUE])
            \o Upper(SubSeq(str, 2, Len(str)))

\* date.strftime("%d-%b-%Y")
StrfTime(date) ==
    LET months == <<"Jan", "Feb", "Mar", "Apr", "May", "Jun",
                    "Jul", "Aug", "Sep", "Oct", "Nov", "Dec">>
    IN (IF date.day < 10 THEN "0" ELSE "") \o ToString(date.day) \o "-"
       \o months[date.month] \o "-" \o ToString(date.year)

\* Python raises TypeError for a keyword that is no parameter of the function.
UnexpectedKeyword(passed) == passed \ Parameters # {}

\* The body of _build_search_criteria.
SearchCriteria(kw) ==
    LET Valued(keyword, value) == IF value = None THEN <<>> ELSE <<keyword, value[1]>>
        search_criteria ==
            (IF kw.before = None THEN <<>> ELSE <<"BEFORE", Upper(StrfTime(kw.before[1]))>>)
            \o (IF kw.since = None THEN <<>> ELSE <<"SINCE", Upper(StrfTime(kw.since[1]))>>)
            \o Valued("SUBJECT", kw.subject)
            \o Valued("BODY", kw.body)
            \o Valued("TEXT", kw.text)
            \o Valued("FROM", kw.from_address)
            \o Valued("TO", kw.to_address)
    IN IF search_criteria = <<>> THEN <<"ALL">> ELSE search_criteria

\* _build_search_criteria(before=..., ..., seen=..., flagged=..., answered=...)
BuildSearchCriteria ==
    /\ op = "_build_search_criteria"
    /\ IF UnexpectedKeyword(request.passed)
       THEN Raises("TypeError")
       ELSE Returns(SearchCriteria(request))

\* str.find(c) for one character c: the 0-based index of its first
\* occurrence, or -1.
Find(str, c) ==
    LET hits == {i \in 1..Len(str) : SubSeq(str, i, i) = c}
    IN IF hits = {} THEN -1 ELSE (CHOOSE i \in hits : \A j \in hits : i <= j) - 1

\* str.strip(), with the space as the one whitespace character.
RECURSIVE Strip(_)
Strip(str) ==
    IF str = "" THEN ""
    ELSE IF SubSeq(str, 1, 1) = " " THEN Strip(SubSeq(str, 2, Len(str)))
    ELSE IF SubSeq(str, Len(str), Len(str)) = " " THEN Strip(SubSeq(str, 1, Len(str) - 1))
    ELSE str

\* str.split(sep) for one character sep.
RECURSIVE Split(_, _)
Split(str, sep) ==
    LET i == Find(str, sep)
    IN IF i = -1 THEN <<str>>
       ELSE <<SubSeq(str, 1, i)>> \o Split(SubSeq(str, i + 2, Len(str)), sep)

\* folder_data.decode("utf-8") raises UnicodeDecodeError on bytes that are
\* not UTF-8; it stands before the try block.
DecodeRaises(item) == item.type = "bytes" /\ ~item.utf8

\* _parse_list_response once folder_str is decoded.
ParseListResponse(folder_str) ==
    LET flags_start == Find(folder_str, "(")
        flags_end == Find(folder_str, ")")
        flags_str == SubSeq(folder_str, flags_start + 2, flags_end)
        flags == SelectSeq(Split(flags_str, " "), LAMBDA f : f # "")
        rest == Strip(SubSeq(folder_str, flags_end + 2, Len(folder_str)))
        parts == Split(rest, "\"")
    IN IF folder_str = "" \/ folder_str = "LIST completed." THEN None
       ELSE IF flags_start = -1 \/ flags_end = -1 THEN None
       ELSE IF Len(parts) >= 4
            THEN Some([name |-> parts[4], delimiter |-> parts[2], flags |-> flags])
            ELSE None

\* The loop of list_folders over the items of the LIST response, none of
\* which raises: the folders parsed, in order.
RECURSIVE ParsedFolders(_)
ParsedFolders(folder_data) ==
    IF folder_data = <<>> THEN <<>>
    ELSE LET n == Len(folder_data)
             folders == ParsedFolders(SubSeq(folder_data, 1, n - 1))
             folder == ParseListResponse(folder_data[n].line.text)
         IN IF folder = None THEN folders ELSE Append(folders, folder[1])

\* for item in folder_data: folder = self._parse_list_response(item); ...
ParseListResponses ==
    /\ op = "_parse_list_response"
    /\ IF \E i \in DOMAIN request.folder_data : DecodeRaises(request.folder_data[i])
       THEN Raises("UnicodeDecodeError")
       ELSE Returns(ParsedFolders(request.folder_data))

\* await imap.<command>(_quote_mailbox(mailbox)): the argument sent.
MailboxCommand ==
    /\ op = "_quote_mailbox"
    /\ Returns(CmdIn(request.command, "", 0, "OK", QuoteMailbox(request.mailbox)))

\* Variant of PermissionDenied: only download_attachment is checked.
FolderToolsOpen(tool, settings) ==
    tool = "download_attachment" /\ ~settings.enable_attachment_download

\* The checks a tool makes before it dispatches: the folder and label tools
\* call _check_folder_management_enabled(), download_attachment reads
\* enable_attachment_download; each raises PermissionError.
PermissionDenied(tool, settings) ==
    \/ tool \in FolderTools /\ ~settings.enable_folder_management
    \/ tool = "download_attachment" /\ ~settings.enable_attachment_download

\* A tool up to "handler = dispatch_handler(account_name)".
ToolCheck ==
    /\ op = "tool"
    /\ IF PermissionDenied(request.tool, request)
       THEN Raises("PermissionError")
       ELSE /\ pc = "call"
            /\ pc' = "dispatch"
            /\ UNCHANGED <<result, outcome, call_frame>>

\* handler = dispatch_handler(account_name); return await handler.<tool>(...):
\* the handler works on the mailbox in sessions of its own and returns or
\* raises. list_emails_metadata passes seen=, flagged= and answered= to
\* get_emails_metadata, which has the parameters of _build_search_criteria
\* less body and text.
ToolDispatch ==
    /\ op = "tool"
    /\ pc = "dispatch"
    /\ \E r \in {"OK", "EXC"} :
        /\ request.tool = "list_emails_metadata" /\ UnexpectedKeyword(FlagFilters)
            => r = "EXC"
        /\ cmds' = <<Cmd("dispatch_handler", "", 0, "OK"), Cmd(request.tool, "", 0, r)>>
        /\ outcome' = IF r = "OK" THEN "returned" ELSE "raised"
        /\ result' = IF r = "OK" THEN "response" ELSE "Exception"
    /\ pc' = "done"
    /\ UNCHANGED <<op, request, email_ids, idx, succeeded_ids, failed_ids, exc,
                   move_vars, list_vars>>

NextCalls ==
    \/ ListLabels
    \/ BuildSearchCriteria
    \/ ParseListResponses
    \/ MailboxCommand
    \/ ToolCheck
    \/ ToolDispatch

SpecCalls == InitCalls /\ [][NextCalls]_vars

\* The folder is one that stands for a label: "Labels/" and at least one
\* further character.
IsLabelFolder(folder) ==
    /\ Len(folder.name) > 7
    /\ SubSeq(folder.name, 1, 7) = "Labels/"

(***************************************************************************)
(* C21. list_labels returns one label for each listed folder whose name is *)
(* "Labels/" followed by at least one character, in folder-list order,     *)
(* with name = the folder name without the prefix and full_path = the      *)
(* folder name; "Labels/", "Labels" and folders without the prefix yield   *)
(* no label.                                                               *)
(***************************************************************************)
C21_LabelsOfFolders ==
    (op = "list_labels" /\ outcome = "returned")
    => LET kept == SelectSeq(request.folders, IsLabelFolder)
       IN  /\ Len(result) = Len(kept)
           /\ \A i \in DOMAIN kept :
                /\ result[i].full_path = kept[i].name
                /\ "Labels/" \o result[i].name = kept[i].name
                /\ result[i].name # ""
           /\ \A i \in DOMAIN result :
                result[i].full_path \notin {"Labels/", "Labels", "INBOX", "MyLabels/Work"}

\* list_labels has returned one label from the folders "Labels/" and
\* "Labels/Important".
C21_Witness ==
    /\ op = "list_labels" /\ outcome = "returned"
    /\ Len(request.folders) = 2
    /\ request.folders[1].name = "Labels/"
    /\ request.folders[2].name = "Labels/Important"
    /\ Len(result) = 1 /\ result[1].name = "Important"

(***************************************************************************)
(* C22. With enable_folder_management false, each of the twelve folder and *)
(* label tools raises PermissionError before it dispatches a handler: no   *)
(* handler is called, so no session is opened and no mailbox changes.      *)
(***************************************************************************)
C22_FolderToolsGated ==
    (/\ op = "tool"
     /\ ~request.enable_folder_management
     /\ request.tool \in {"list_folders", "move_emails", "copy_emails", "create_folder",
                          "delete_folder", "rename_folder", "list_labels", "apply_label",
                          "remove_label", "get_email_labels", "create_label",
                          "delete_label"})
    => /\ cmds = <<>>
       /\ pc \in {"call", "done"}
       /\ pc = "done" => outcome = "raised" /\ result = "PermissionError"

\* apply_label was called with folder management disabled and has raised
\* PermissionError.
C22_Witness ==
    /\ op = "tool" /\ request.tool = "apply_label"
    /\ ~request.enable_folder_management
    /\ pc = "done" /\ outcome = "raised" /\ result = "PermissionError" /\ cmds = <<>>

\* The sessions opened so far: each CONNECT of the operation itself, and each
\* call by remove_label of an EmailClient method, which creates an IMAP
\* client and connects it.
SessionsOpened ==
    Cardinality(Calls("CONNECT"))
    + Cardinality(Calls("get_email_message_id") \cup Calls("search_by_message_id")
                  \cup Calls("delete_from_folder"))

(***************************************************************************)
(* C23. A bulk delete, copy, move or remove_label call that has ended has  *)
(* opened exactly one IMAP session: one connect and one logout.            *)
(***************************************************************************)
C23_OneSessionPerOperation ==
    (op \in {"delete", "copy", "move", "remove_label"} /\ pc = "done")
    => /\ SessionsOpened = 1
       /\ op # "remove_label" => Cardinality(Calls("LOGOUT")) = 1

\* The number of positions of a token list that hold the token.
Tokens(list, token) == Cardinality({i \in DOMAIN list : list[i] = token})

(***************************************************************************)
(* C24. For every combination of the filters before, since, subject, from, *)
(* to, seen, flagged and answered, the search-criteria builder returns a   *)
(* token list that holds the keyword of each supplied filter exactly once  *)
(* (SEEN or UNSEEN, FLAGGED or UNFLAGGED, ANSWERED or UNANSWERED for the   *)
(* boolean ones), each valued keyword followed at once by its value, and   *)
(* no keyword of a filter that is not supplied; it is ["ALL"] when no      *)
(* filter is supplied.                                                     *)
(***************************************************************************)
C24_CriteriaOfFilters ==
    (op = "_build_search_criteria" /\ pc = "done")
    => /\ outcome = "returned"
       /\ \A f \in {<<"before", "BEFORE">>, <<"since", "SINCE">>, <<"subject", "SUBJECT">>,
                    <<"from_address", "FROM">>, <<"to_address", "TO">>} :
            IF request[f[1]] = None THEN Tokens(result, f[2]) = 0
            ELSE /\ Tokens(result, f[2]) = 1
                 /\ \E i \in 1..(Len(result) - 1) : result[i] = f[2]
       /\ request.subject # None
            => \E i \in 1..(Len(result) - 1) :
                    result[i] = "SUBJECT" /\ result[i + 1] = request.subject[1]
       /\ request.before # None
            => \E i \in 1..(Len(result) - 1) :
                    result[i] = "BEFORE" /\ result[i + 1] = "01-JAN-2023"
       /\ \A f \in {<<"seen", "SEEN", "UNSEEN">>, <<"flagged", "FLAGGED", "UNFLAGGED">>,
                    <<"answered", "ANSWERED", "UNANSWERED">>} :
            /\ Tokens(result, f[2]) = (IF request[f[1]] = Some(TRUE) THEN 1 ELSE 0)
            /\ Tokens(result, f[3]) = (IF request[f[1]] = Some(FALSE) THEN 1 ELSE 0)
       /\ (\A k \in Parameters \cup FlagFilters : request[k] = None)
            => result = <<"ALL">>

\* The folders that the lines of a LIST response stand for, in order.
RECURSIVE FoldersOf(_)
FoldersOf(items) ==
    IF items = <<>> THEN <<>>
    ELSE LET n == Len(items)
             rest == FoldersOf(SubSeq(items, 1, n - 1))
         IN IF items[n].line.folder = None THEN rest
            ELSE Append(rest, items[n].line.folder[1])

(***************************************************************************)
(* C25. _parse_list_response raises for no input line: an empty line,      *)
(* "LIST completed.", a line without a pair of parentheses and a line with *)
(* fewer than four quote-delimited segments after the flags yield no       *)
(* folder, a line (flags) "delimiter" "name" yields the folder with those  *)
(* flags, delimiter and name, and list_folders returns the folders of the  *)
(* well-formed lines in response order.                                    *)
(***************************************************************************)
C25_ParseIsTotal ==
    (op = "_parse_list_response" /\ pc = "done")
    => /\ outcome = "returned"
       /\ result = FoldersOf(request.folder_data)

(***************************************************************************)
(* C26. create_folder, delete_folder and rename_folder never raise: each   *)
(* returns success exactly when its CREATE, DELETE or RENAME was answered  *)
(* OK, and failure when it was answered non-OK or when connect, LOGIN or   *)
(* the command raised; the session is logged out in every case.            *)
(***************************************************************************)
C26_FolderOpsNeverRaise ==
    op \in {"create_folder", "delete_folder", "rename_folder"}
    => /\ outcome # "raised"
       /\ pc = "done"
            => LET command == CASE op = "create_folder" -> "CREATE"
                                [] op = "delete_folder" -> "DELETE"
                                [] op = "rename_folder" -> "RENAME"
               IN  /\ outcome = "returned"
                   /\ result \in {"success", "failure"}
                   /\ result = "success" <=> \E i \in Calls(command) : cmds[i].res = "OK"
                   /\ Cardinality(Calls(command)) <= 1
                   /\ cmds[Len(cmds)].cmd = "LOGOUT"
                   /\ Cardinality(Calls("LOGOUT")) = 1

\* rename_folder has returned failure after its RENAME raised, and the logout
\* raised as well.
C26_Witness ==
    /\ op = "rename_folder" /\ pc = "done" /\ outcome = "returned" /\ result = "failure"
    /\ \E i \in Calls("RENAME") : cmds[i].res = "EXC"
    /\ cmds[Len(cmds)] = Cmd("LOGOUT", "", 0, "EXC")

\* A quoted string read back as an IMAP server reads it: the quotes taken
\* off, and each backslash taken as the escape of the character after it.
RECURSIVE Unescape(_)
Unescape(str) ==
    IF str = "" THEN ""
    ELSE IF SubSeq(str, 1, 1) = "\\"
         THEN SubSeq(str, 2, 2) \o Unescape(SubSeq(str, 3, Len(str)))
         ELSE SubSeq(str, 1, 1) \o Unescape(SubSeq(str, 2, Len(str)))

\* The number of positions of a string that hold the character.
CountOf(str, c) == Cardinality({i \in 1..Len(str) : SubSeq(str, i, i) = c})

(***************************************************************************)
(* C29. For every mailbox name _quote_mailbox returns the name between one *)
(* leading and one trailing double quote, every backslash of it replaced   *)
(* by two backslashes and every double quote by backslash-quote; reading   *)
(* the interior back without the escapes gives the name; SELECT, COPY,     *)
(* MOVE, CREATE, DELETE, RENAME and APPEND send their mailbox in this form.*)
(***************************************************************************)
C29_QuoteRoundTrip ==
    (op = "_quote_mailbox" /\ pc = "done")
    => LET quoted == result.folder
           name == request.mailbox
           interior == SubSeq(quoted, 2, Len(quoted) - 1)
           specials == CountOf(name, "\\") + CountOf(name, "\"")
       IN  /\ outcome = "returned"
           /\ result.cmd = request.command
           /\ Len(quoted) = Len(name) + specials + 2
           /\ SubSeq(quoted, 1, 1) = "\"" /\ SubSeq(quoted, Len(quoted), Len(quoted)) = "\""
           /\ CountOf(interior, "\\") = 2 * CountOf(name, "\\") + CountOf(name, "\"")
           /\ CountOf(interior, "\"") = CountOf(name, "\"")
           /\ CountOf(interior, "a") = CountOf(name, "a")
           /\ Unescape(interior) = name

\* The name a\" (a letter, a backslash, a double quote) was sent quoted.
C29_Witness ==
    /\ op = "_quote_mailbox" /\ pc = "done"
    /\ request.mailbox = "a\\\""
    /\ result.folder = "\"a\\\\\\\"\""

(***************************************************************************)
(* ClassicEmailHandler.send_email: SMTP delivery, then append_to_sent in   *)
(* an IMAP session of its own. server is the IMAP server: the folders that *)
(* can be selected, the folder that carries the \Sent flag, what a SELECT  *)
(* of a folder that cannot be selected does and what APPEND does.          *)
(***************************************************************************)

\* The common Sent folder names of append_to_sent, in its order.
CommonSentFolders ==
    <<"Sent", "INBOX.Sent", "Sent Items", "Sent Mail", "[Gmail]/Sent Mail", "INBOX/Sent">>

\* sent_folder_candidates once the \Sent flag has been looked up: flag_folder
\* is "" when no folder was found by flag.
SentFolderCandidates(sent_folder_name, flag_folder) ==
    LET named == (IF sent_folder_name = None THEN <<>> ELSE <<sent_folder_name[1]>>)
                 \o CommonSentFolders
    IN IF flag_folder # "" /\ flag_folder \notin Range(named)
       THEN <<flag_folder>> \o named
       ELSE named

InitSend ==
    /\ op = "send_email"
    /\ request \in [save_to_sent : BOOLEAN,
                    sent_folder_name : {None, Some("MySent"), Some("Sent")}]
    /\ server \in [folders : SUBSET {"MySent", "Gesendet", "Sent", "INBOX/Sent"},
                   sent_flag : {"", "Gesendet", "Sent"},
                   missing : {"NO", "EXC"},
                   append : Results]
    /\ pc = "smtp"
    /\ email_ids = <<>>
    /\ idx = 1
    /\ succeeded_ids = <<>>
    /\ failed_ids = <<>>
    /\ cmds = <<>>
    /\ exc = FALSE
    /\ result = "none"
    /\ outcome = "running"
    /\ lists = Unused
    /\ listing = Unused
    /\ listed = Unused

\* msg = await self.outgoing_client.send_email(...); if self.save_to_sent and
\* msg: append_to_sent(...). An exception of the delivery leaves send_email.
SmtpSend ==
    /\ pc = "smtp"
    /\ \E r \in {"OK", "EXC"} :
        /\ cmds' = Append(cmds, Cmd("SMTP", "", 0, r))
        /\ pc' = IF r = "OK" /\ request.save_to_sent THEN "connect" ELSE "done"
        /\ outcome' = IF r = "EXC" THEN "raised"
                      ELSE IF request.save_to_sent THEN "running" ELSE "returned"
    /\ UNCHANGED <<op, email_ids, idx, succeeded_ids, failed_ids, exc, result, aux_vars>>

\* flag_folder = await self._find_sent_folder_by_flag(imap): the folder with
\* the \Sent flag in the LIST response, None when there is none or LIST
\* raised (caught inside).
FindSentFolder ==
    /\ pc = "find"
    /\ \E r \in Results :
        cmds' = Append(cmds, Cmd("LIST", IF r = "OK" THEN server.sent_flag ELSE "", 0, r))
    /\ pc' = "try_folder"
    /\ idx' = 1
    /\ UNCHANGED <<op, email_ids, succeeded_ids, failed_ids, exc, result, outcome, aux_vars>>

\* The candidates of the loop, from the answer of the LIST call.
Candidates ==
    SentFolderCandidates(request.sent_folder_name,
                         cmds[CHOOSE i \in DOMAIN cmds : cmds[i].cmd = "LIST"].arg)

\* The next candidate, or "return False" after the last.
NextCandidate ==
    IF idx < Len(Candidates)
    THEN /\ pc' = "try_folder"
         /\ idx' = idx + 1
         /\ UNCHANGED result
    ELSE /\ pc' = "logout"
         /\ result' = "failure"
         /\ UNCHANGED idx

\* result = await imap.select(_quote_mailbox(folder)): answered OK, the
\* message is appended; answered non-OK or raising, the next folder is tried.
SelectSent ==
    /\ pc = "try_folder"
    /\ LET folder == Candidates[idx]
           r == IF folder \in server.folders THEN "OK" ELSE server.missing
       IN  /\ cmds' = Append(cmds, CmdIn("SELECT", "", idx, r, QuoteMailbox(folder)))
           /\ IF IsOK(r)
              THEN pc' = "append" /\ UNCHANGED <<idx, result>>
              ELSE NextCandidate
    /\ UNCHANGED <<op, email_ids, succeeded_ids, failed_ids, exc, outcome, aux_vars>>

\* Variant of AppendSaved: the loop goes on after an APPEND answered OK.
AppendNeverSaved(r) == FALSE

\* if str(append_status).upper() == "OK": return True
AppendSaved(r) == IsOK(r)

\* append_result = await imap.append(msg_bytes, mailbox=_quote_mailbox(folder), ...)
AppendSent ==
    /\ pc = "append"
    /\ LET r == server.append
       IN  /\ cmds' = Append(cmds, CmdIn("APPEND", "", idx, r, QuoteMailbox(Candidates[idx])))
           /\ IF AppendSaved(r)
              THEN pc' = "logout" /\ result' = "success" /\ UNCHANGED idx
              ELSE NextCandidate
    /\ UNCHANGED <<op, email_ids, succeeded_ids, failed_ids, exc, outcome, aux_vars>>

NextSend ==
    \/ SmtpSend
    \/ Connect
    \/ Login
    \/ SendImapId
    \/ FindSentFolder
    \/ SelectSent
    \/ AppendSent
    \/ Logout

SpecSend == InitSend /\ [][NextSend]_vars

(***************************************************************************)
(* C27. In send_email the Sent-folder session is opened only after the     *)
(* SMTP delivery completed without error; at most one APPEND is answered   *)
(* OK per send; and no failure while saving (no folder selectable, APPEND  *)
(* non-OK, connect or LOGIN failing) changes the outcome of send_email.    *)
(***************************************************************************)
C27_SaveIsBestEffort ==
    /\ \A i \in DOMAIN cmds :
            cmds[i].cmd # "SMTP"
            => i > 1 /\ cmds[1] = Cmd("SMTP", "", 0, "OK") /\ request.save_to_sent
    /\ Cardinality({i \in Calls("APPEND") : cmds[i].res = "OK"}) <= 1
    /\ \A i \in Calls("APPEND") : cmds[i - 1].cmd = "SELECT" /\ cmds[i - 1].res = "OK"
    /\ outcome = "raised" => cmds = <<Cmd("SMTP", "", 0, "EXC")>>
    /\ (pc = "done" /\ cmds[1].res = "OK") => outcome = "returned"

\* send_email has returned although nothing was saved: two folders were
\* selected, the APPEND to each was answered NO.
C27_Witness ==
    /\ pc = "done" /\ outcome = "returned" /\ result = "failure"
    /\ Cardinality(Calls("APPEND")) = 2
    /\ \A i \in Calls("APPEND") : cmds[i].res = "NO"
    /\ Cardinality(Calls("SELECT")) > 2

\* The positions of cmds that hold the first SELECT of the session.
FirstSelect == {i \in Calls("SELECT") : \A j \in Calls("SELECT") : i <= j}

(***************************************************************************)
(* C28. When the caller supplies a Sent-folder name, it is the first       *)
(* folder on which append_to_sent tries SELECT, before a folder found by   *)
(* the \Sent flag and before the common names, which follow in their       *)
(* order.                                                                  *)
(***************************************************************************)
C28_OverrideFirst ==
    request.sent_folder_name # None
    => \A i \in FirstSelect :
            cmds[i].folder = "\"" \o request.sent_folder_name[1] \o "\""

\* The mailboxes after the server has carried out the commands of a trace
\* that it answered OK.
RECURSIVE MailboxesAfter(_, _)
MailboxesAfter(box, trace) ==
    IF trace = <<>> THEN box
    ELSE LET c == Head(trace)
             after == IF c.res # "OK" THEN box
                      ELSE CASE c.cmd = "COPY" -> ServerUidCopy(box, c.arg).box
                             [] c.cmd = "MOVE" -> ServerUidMove(box, c.arg).box
                             [] c.cmd = "STORE" -> ServerUidStore(box, c.arg).box
                             [] c.cmd = "EXPUNGE" -> ServerExpunge(box)
                             [] OTHER -> box
         IN MailboxesAfter(after, Tail(trace))

(***************************************************************************)
(* C30. copy_emails and apply_label issue only UID COPY commands on the    *)
(* selected source mailbox, never STORE, MOVE or EXPUNGE: whatever the     *)
(* source mailbox held, after the call each of its messages is still there *)
(* and as flagged as before, whether its copy succeeded or failed.         *)
(***************************************************************************)
C30_CopyLeavesSource ==
    op \in {"copy", "apply_label"}
    => /\ \A i \in DOMAIN cmds :
            /\ cmds[i].cmd \notin {"STORE", "MOVE", "EXPUNGE"}
            /\ cmds[i].pos > 0 => cmds[i].cmd = "COPY" /\ Calls("SELECT") # {}
       /\ \A source \in [Ids -> {"absent", "present", "deleted"}] :
            LET box == [source |-> source, dest |-> [id \in Ids |-> 0], move |-> "OK"]
            IN MailboxesAfter(box, cmds).source = source

\* copy_emails has returned from a batch of two: the first id copied, the
\* COPY of the second answered NO.
C30_Witness ==
    /\ op = "copy" /\ Returned /\ Len(email_ids) = 2
    /\ succeeded_ids = <<email_ids[1]>> /\ failed_ids = <<email_ids[2]>>
    /\ Cardinality(Calls("COPY")) = 2

(***************************************************************************)
(* The header fetch of one page against a server that may answer anything. *)
(* The page's id list is given; the data of the FETCH response is any      *)
(* sequence of fragments: text lines (bytes) with or without a UID token   *)
(* and literals (bytearray) holding a header block that parses (its Date   *)
(* header) or on which the parser raises. The loops of _batch_fetch_dates  *)
(* and _batch_fetch_headers read the response fragment by fragment; the    *)
(* page is then put in the order of the id list and yielded.               *)
(***************************************************************************)

\* Largest UID of a page or of a FETCH response.
MaxFetchUid == 2

\* Longest FETCH response, in fragments.
MaxFragments == 4

\* The fragments of a FETCH response: text with a UID token (uid # 0) or
\* without, and literals with a header block that parses (its Date header)
\* or does not.
Fragments ==
    [kind : {"bytes"}, uid : 0..MaxFetchUid, data : {0}]
        \cup [kind : {"bytearray"}, uid : {0}, data : {Malformed, 1}]

InitFetch ==
    /\ op = "fetch_page"
    /\ email_ids = Unused
    /\ pc = "parse"
    /\ idx = 1
    /\ succeeded_ids = Unused
    /\ failed_ids = Unused
    /\ cmds = Unused
    /\ exc = FALSE
    /\ result = "none"
    /\ outcome = "running"
    /\ server = Unused
    /\ lists = Unused
    /\ listing = Unused
    \* page_uids is a slice of at most page_size ids, not empty when the
    \* headers of the page are fetched; UID SORT / UID SEARCH name a message once
    /\ request \in {r \in [page_uids : SeqsUpTo(1..MaxFetchUid, MaxPageSize),
                             page_size : 1..MaxPageSize,
                             data : SeqsUpTo(Fragments, MaxFragments)] :
                        /\ r.page_uids # <<>> /\ IsDistinct(r.page_uids)
                        /\ Len(r.page_uids) <= r.page_size}
    /\ listed = [dates |-> ParseDates(<<>>), headers |-> ParseHeaders(<<>>)]

\* "for item in data" of _batch_fetch_dates and of _batch_fetch_headers: the
\* next fragment of the response is read.
ParseItem ==
    /\ pc = "parse"
    /\ idx <= Len(request.data)
    /\ listed' = [dates |-> ParseDates(SubSeq(request.data, 1, idx)),
                  headers |-> ParseHeaders(SubSeq(request.data, 1, idx))]
    /\ idx' = idx + 1
    /\ UNCHANGED <<op, email_ids, pc, succeeded_ids, failed_ids, cmds, exc, result, outcome>>
    /\ UNCHANGED <<server, lists, listing, request>>

\* "return results" of _batch_fetch_headers, then the sort on uid_order and
\* the yields of get_emails_metadata_stream: the email ids of metadata_list
\* and the email ids yielded.
YieldPage ==
    /\ pc = "parse"
    /\ idx > Len(request.data)
    /\ \E ticks \in BOOLEAN :
        LET metadata_list == HeaderMetadata(listed.headers.results, ticks)
        IN result' = [metadata_list |-> Firsts(metadata_list),
                      yielded |-> MatchPageOrder(metadata_list, request.page_uids)]
    /\ pc' = "done"
    /\ outcome' = "returned"
    /\ UNCHANGED <<op, email_ids, idx, succeeded_ids, failed_ids, cmds, exc>>
    /\ UNCHANGED <<move_vars, listing, listed, request>>

SpecFetch == InitFetch /\ [][ParseItem \/ YieldPage]_vars

\* The data of a FETCH response without the text lines that carry no UID.
Response(messages, uid_first) ==
    SelectSeq(FetchData(messages, uid_first), LAMBDA item : item.kind = "bytearray" \/ item.uid # 0)

\* The messages <<uid, header block>> a response of MaxFragments fragments
\* has room for.
ResponseMessages == SeqsUpTo((1..MaxFetchUid) \X {Malformed, 1}, MaxFragments \div 2)

(***************************************************************************)
(* C31. When the header block of one message of a batch cannot be parsed,  *)
(* _batch_fetch_headers returns the other messages of the response, in     *)
(* response order, and does not raise.                                     *)
(***************************************************************************)
C31_ParseFailureDropsOne ==
    (op = "fetch_page" /\ pc = "done")
    => /\ outcome = "returned"
       /\ \A messages \in ResponseMessages : \A uid_first \in BOOLEAN :
            SelectSeq(request.data, LAMBDA item : item.kind = "bytearray" \/ item.uid # 0)
                = Response(messages, uid_first)
            => result.metadata_list
                = Firsts(SelectSeq(messages, LAMBDA m : m[2] # Malformed))

\* A response with two messages, the first with a header block that cannot be
\* parsed, has been read: the second message alone is in the result.
C31_Witness ==
    /\ op = "fetch_page" /\ pc = "done"
    /\ \E u, v \in 1..MaxFetchUid :
        /\ u # v
        /\ request.data = Response(<<<<u, Malformed>>, <<v, 1>>>>, TRUE)
        /\ result.metadata_list = <<v>>

\* The place of an email id in the page's id list; an id that is not in the
\* list comes after the last place.
PagePosition(uid) ==
    IF \E i \in DOMAIN request.page_uids : request.page_uids[i] = uid
    THEN CHOOSE i \in DOMAIN request.page_uids : request.page_uids[i] = uid
    ELSE Len(request.page_uids) + 1

(***************************************************************************)
(* C32. Whatever the order in which the server returns the header FETCH    *)
(* responses of a page, get_emails_metadata_stream yields the messages     *)
(* _batch_fetch_headers returned in the order of the page's id list, with  *)
(* the messages whose id is not in the list after all the others; when the *)
(* response is a permutation of the page's messages, the ids yielded are   *)
(* the page's id list. (The SORT path and the fallback path run the same   *)
(* statements on metadata_list and page_uids.)                             *)
(***************************************************************************)
C32_PageOrder ==
    (op = "fetch_page" /\ pc = "done")
    => /\ \A u \in 0..MaxFetchUid :
            Occurrences(result.yielded, u) = Occurrences(result.metadata_list, u)
       /\ \A i, j \in DOMAIN result.yielded :
            i < j => PagePosition(result.yielded[i]) <= PagePosition(result.yielded[j])
       /\ \A messages \in ResponseMessages : \A uid_first \in BOOLEAN :
            (/\ request.data = Response(messages, uid_first)
             /\ Len(messages) = Len(request.page_uids)
             /\ Range(Firsts(messages)) = Range(request.page_uids)
             /\ \A k \in DOMAIN messages : messages[k][2] # Malformed)
            => result.yielded = request.page_uids

\* The server has returned the two messages of a page in the opposite order
\* of the page's id list, and the page has been yielded in the order of the
\* list.
C32_Witness ==
    /\ op = "fetch_page" /\ pc = "done"
    /\ \E u, v \in 1..MaxFetchUid :
        /\ u # v
        /\ request.page_uids = <<u, v>>
        /\ request.data = Response(<<<<v, 1>>, <<u, 1>>>>, FALSE)
        /\ result.yielded = <<u, v>>

\* The fetches of _fetch_email_with_formats made so far, in order.
Fetches == SelectSeq(cmds, LAMBDA c : c.cmd = "FETCH")

\* get_emails_content, one email_id: "if email_data: emails.append(...)
\* else: failed_ids.append(email_id)", and "except Exception:
\* failed_ids.append(email_id)".
ContentFailed(email_data, raised) == raised \/ email_data = "none"

(***************************************************************************)
(* C33. get_email_body_by_id fetches with the specifiers RFC822, BODY[],   *)
(* BODY.PEEK[], (BODY.PEEK[]) in this order, goes on with the next one     *)
(* when a fetch raises or its data is not recognised as content, fetches   *)
(* no more after the first data recognised as content, and when all four   *)
(* have failed returns None without raising, which get_emails_content      *)
(* records in failed_ids.                                                  *)
(***************************************************************************)
C33_FetchFormatsInOrder ==
    op = "body"
    => /\ Len(Fetches) <= Len(FetchFormats)
       /\ \A k \in DOMAIN Fetches :
            /\ Fetches[k].arg = FetchFormats[k]
            /\ k < Len(Fetches) => Fetches[k].data # "content"
       /\ \A k \in DOMAIN Fetches :
            (Fetches[k].data # "content" /\ k < Len(FetchFormats) /\ pc = "done")
            => k < Len(Fetches)
       /\ (pc = "done" /\ Len(Fetches) = Len(FetchFormats)
                       /\ Fetches[Len(FetchFormats)].data # "content")
            => /\ outcome = "returned"
               /\ result = "none"
               /\ ContentFailed(result, outcome = "raised")

\* All four fetches have failed, one of them by raising, and None has been
\* returned.
C33_Witness ==
    /\ op = "body" /\ Returned /\ result = "none"
    /\ Len(Fetches) = Len(FetchFormats)
    /\ \A k \in DOMAIN Fetches : Fetches[k].data # "content"
    /\ \E k \in DOMAIN Fetches : Fetches[k].res = "EXC"
    /\ \E k \in DOMAIN Fetches : Fetches[k].res = "OK"

(***************************************************************************)
(* One call of get_emails_metadata_stream for any page number, on a server *)
(* that advertises SORT or on one that does not. The tool takes page as an *)
(* int without a lower limit (app.py:53-57).                               *)
(***************************************************************************)

\* Largest page number asked for; the smallest is 1 - MaxPage.
MaxPage == 3

InitPage ==
    /\ op = "page"
    /\ email_ids = Unused
    /\ pc = "page"
    /\ idx = 1
    /\ succeeded_ids = Unused
    /\ failed_ids = Unused
    /\ cmds = Unused
    /\ exc = FALSE
    /\ result = "none"
    /\ outcome = "running"
    /\ server = Unused
    /\ lists = Unused
    /\ listed = Unused
    /\ listing \in [box : Mailboxes, uid_first : BOOLEAN, order : {"desc", "asc"},
                    page_size : 1..MaxPageSize]
    /\ request \in [page : (1 - MaxPage)..MaxPage, has_sort : BOOLEAN]

\* get_emails_metadata_stream(page, page_size, order=order): the email ids it
\* yields, and whether the clock ticked between the dates it read.
GetPage ==
    /\ pc = "page"
    /\ \E ticks \in BOOLEAN :
        result' = [yielded |-> GetEmailsMetadataStream(request.has_sort, listing.box,
                                    listing.uid_first, request.page, listing.page_size,
                                    listing.order, ticks),
                   ticks |-> ticks]
    /\ pc' = "done"
    /\ outcome' = "returned"
    /\ UNCHANGED <<op, email_ids, idx, succeeded_ids, failed_ids, cmds, exc>>
    /\ UNCHANGED aux_vars

SpecPage == InitPage /\ [][GetPage]_vars

\* The matches in the order of the listing: that of UID SORT, or that of the
\* dates read by the call.
OrderedMatches ==
    IF request.has_sort THEN ServerSort(listing.box, listing.order)
    ELSE Firsts(ListSort(BatchFetchDates(listing.box, listing.uid_first,
                                         ServerSearch(listing.box), result.ticks),
                         listing.order = "desc"))

\* For page >= 1 the call yields the matches at the positions
\* [start, start + page_size) of the ordered match list, and nothing when start
\* is at or beyond the number of matches.
PageIsWindow ==
    (op = "page" /\ pc = "done" /\ request.page >= 1)
    => LET start == (request.page - 1) * listing.page_size
           n == Len(OrderedMatches)
       IN result.yielded =
            [i \in 1..(IF start >= n THEN 0
                       ELSE IF start + listing.page_size <= n THEN listing.page_size
                       ELSE n - start) |-> OrderedMatches[start + i]]

(***************************************************************************)
(* C34. get_emails_metadata_stream yields an empty page without error for  *)
(* every page number <= 0 and for every page whose start offset is at or   *)
(* beyond the number of matches, on the SORT path and on the fallback      *)
(* path; for page >= 1 it yields the matches at the positions              *)
(* [start, start + page_size) of the ordered match list.                   *)
(***************************************************************************)
C34_PageBounds ==
    /\ PageIsWindow
    /\ (op = "page" /\ pc = "done")
        => /\ outcome = "returned"
           /\ request.page <= 0 => result.yielded = <<>>

\* The fragments read so far that are literals, and those that are text with
\* a UID token.
LiteralsRead == {i \in 1..(idx - 1) : request.data[i].kind = "bytearray"}
UidTokensRead == {i \in 1..(idx - 1) : request.data[i].kind = "bytes" /\ request.data[i].uid # 0}

\* The two pending slots of each loop: is the identifier slot, is the payload
\* slot occupied.
PendingSlots ==
    <<<<listed.dates.pending_uid # None, listed.dates.pending_date # None>>,
      <<listed.headers.pending_uid # None, listed.headers.pending_headers # None>>>>

\* The number of pairs each loop has emitted.
PairsEmitted == <<Len(listed.dates.results), Len(listed.headers.results)>>

(***************************************************************************)
(* C35. In the loops of _batch_fetch_dates and _batch_fetch_headers, after *)
(* every fragment at most one of the two pending slots (identifier,        *)
(* payload) is occupied and the number of pairs emitted exceeds neither    *)
(* the number of literals nor the number of text fragments with a UID      *)
(* token read so far; a fragment emits at most one pair, and only a        *)
(* literal read while the identifier slot is occupied or a UID token read  *)
(* while the payload slot is occupied emits one.                           *)
(***************************************************************************)
C35_PendingSlots ==
    /\ [](op = "fetch_page"
            => \A l \in 1..2 :
                /\ ~(PendingSlots[l][1] /\ PendingSlots[l][2])
                /\ PairsEmitted[l] <= Cardinality(LiteralsRead)
                /\ PairsEmitted[l] <= Cardinality(UidTokensRead))
    /\ [][\A l \in 1..2 :
            /\ PairsEmitted'[l] \in {PairsEmitted[l], PairsEmitted[l] + 1}
            /\ PairsEmitted'[l] > PairsEmitted[l]
                => LET item == request.data[idx]
                   IN \/ item.kind = "bytearray" /\ PendingSlots[l][1]
                      \/ item.kind = "bytes" /\ item.uid # 0 /\ PendingSlots[l][2]]_vars

\* Both loops have emitted a pair for a UID read before its literal and hold
\* the next literal in the payload slot.
C35_Witness ==
    /\ op = "fetch_page" /\ idx = 4
    /\ request.data[1].kind = "bytes" /\ request.data[1].uid # 0
    /\ PairsEmitted = <<1, 1>>
    /\ PendingSlots = <<<<FALSE, TRUE>>, <<FALSE, TRUE>>>>

\* The email ids of one call of get_emails_metadata_stream are pairwise
\* different, on a server that answers a FETCH with each message once.
YieldedOnce == (op = "page" /\ pc = "done") => IsDistinct(result.yielded)

ResponseUids == {request.data[i].uid : i \in DOMAIN request.data} \ {0}
ResponseLiterals == {i \in DOMAIN request.data : request.data[i].kind = "bytearray"}

(***************************************************************************)
(* C37 as stated. For page >= 1 every item yielded has an id of the        *)
(* requested page's id list, and the number of items yielded does not      *)
(* exceed page_size, whatever FETCH response the server returns.           *)
(***************************************************************************)
C37_OnlyPageIds ==
    (op = "fetch_page" /\ pc = "done")
    => /\ Range(result.yielded) \subseteq Range(request.page_uids)
       /\ Len(result.yielded) <= request.page_size

(***************************************************************************)
(* C37, amended. Every item yielded has an id that a UID token of the      *)
(* FETCH response carries, and the number of items yielded does not exceed *)
(* the number of literals of the response; an item whose id is not in the  *)
(* page's id list is yielded, after the items of the list. When the        *)
(* response names only ids of the list, each at most once, the ids yielded *)
(* belong to the list and their number does not exceed page_size.          *)
(***************************************************************************)
C37_YieldedFromResponse ==
    (op = "fetch_page" /\ pc = "done")
    => /\ Range(result.yielded) \subseteq ResponseUids
       /\ Len(result.yielded) <= Cardinality(ResponseLiterals)
       /\ \A i, j \in DOMAIN result.yielded :
            (result.yielded[i] \notin Range(request.page_uids)
                /\ result.yielded[j] \in Range(request.page_uids)) => j < i
       /\ (/\ ResponseUids \subseteq Range(request.page_uids)
           /\ \A u \in ResponseUids :
                Cardinality({i \in DOMAIN request.data : request.data[i].uid = u}) = 1)
            => /\ Range(result.yielded) \subseteq Range(request.page_uids)
               /\ Len(result.yielded) <= request.page_size

\* The response to the fetch of a page of one id has held that message and
\* another one, and both have been yielded, the other one last.
C37_Witness ==
    /\ op = "fetch_page" /\ pc = "done"
    /\ request.page_size = 1
    /\ \E u, v \in 1..MaxFetchUid :
        /\ u # v
        /\ request.page_uids = <<u>>
        /\ request.data = Response(<<<<v, 1>>, <<u, 1>>>>, TRUE)
        /\ result.yielded = <<u, v>>

\* The mailboxes of a server that accepts UID MOVE, with nothing yet added to
\* the destination folder.
MailboxesWith(source) ==
    [source |-> source, dest |-> [id \in Ids |-> 0], move |-> "OK"]

(***************************************************************************)
(* C38. delete_emails and move_emails remove from the source mailbox only  *)
(* messages whose ids are in the succeeded list they return: a message     *)
(* that is not in the input, also one that was flagged \Deleted before the *)
(* call, is still in the source mailbox afterwards.                        *)
(***************************************************************************)
C38_OnlySucceededRemoved ==
    (op \in {"delete", "move"} /\ Returned)
    => \A source \in [Ids -> MessageStates] :
            LET after == MailboxesAfter(MailboxesWith(source), cmds).source
            IN \A id \in Ids :
                (source[id] # "absent" /\ after[id] = "absent")
                => id \in Range(succeeded_ids)

(***************************************************************************)
(* C39. For every id that move_emails returns in failed_ids the message is *)
(* as it was before the call: in the source mailbox if it was there, not   *)
(* flagged \Deleted if it was not, and without a copy in the destination   *)
(* folder.                                                                 *)
(***************************************************************************)
C39_FailedMoveUnchanged ==
    (op = "move" /\ Returned)
    => \A source \in [Ids -> {"absent", "present"}] :
            LET after == MailboxesAfter(MailboxesWith(source), cmds)
            IN \A id \in Range(failed_ids) :
                after.source[id] = source[id] /\ after.dest[id] = 0

(***************************************************************************)
(* ClassicEmailHandler.get_emails_metadata while another task deletes from *)
(* the same mailbox. The listing is two sessions one after the other, that *)
(* of get_emails_metadata_stream (here on a server with SORT: UID SORT,    *)
(* then the header fetch of the page) and that of get_email_count (UID     *)
(* SEARCH); the other task runs delete_emails (a STORE per id, then        *)
(* EXPUNGE; move_emails does the same to the source mailbox). Each command *)
(* is atomic on the server, and the commands of the two tasks interleave   *)
(* in every way. A message flagged \Deleted matches until it is expunged.  *)
(***************************************************************************)

InitConc ==
    /\ op = "metadata"
    /\ pc = "sort"
    /\ result = "none"
    /\ outcome = "running"
    /\ exc = FALSE
    /\ cmds = Unused
    /\ succeeded_ids = Unused
    /\ failed_ids = Unused
    /\ request = Unused
    /\ listed = [page_uids |-> <<>>, emails |-> <<>>]
    \* the arguments of the listing, and the messages in the order of the sort
    /\ listing \in [page : 1..MaxPage, page_size : 1..MaxPageSize,
                    sorted : {s \in SeqsUpTo(Ids, Cardinality(Ids)) :
                                Len(s) = Cardinality(Ids) /\ IsDistinct(s)}]
    /\ \E source \in [Ids -> MessageStates] : server = MailboxesWith(source)
    \* the other task: its batch, its position in it and in its code
    /\ email_ids \in SeqsUpTo(Ids, MaxLen)
    /\ idx = 1
    /\ lists = IF email_ids = <<>> THEN "expunge" ELSE "store"

\* get_emails_metadata_stream: UID SORT, and the slice of the page.
StreamSort ==
    /\ pc = "sort"
    /\ LET sorted_uids == SelectSeq(listing.sorted, LAMBDA id : server.source[id] # "absent")
           start == (listing.page - 1) * listing.page_size
           page_uids == Slice(sorted_uids, start, start + listing.page_size)
       IN /\ listed' = [page_uids |-> page_uids, emails |-> <<>>]
          /\ pc' = IF page_uids = <<>> THEN "count" ELSE "fetch_page"
    /\ UNCHANGED <<op, email_ids, idx, succeeded_ids, failed_ids, cmds, exc, result, outcome>>
    /\ UNCHANGED <<move_vars, listing, request>>

\* get_emails_metadata_stream: the header fetch of the page, answered for the
\* messages that are there; they are yielded in the order of page_uids and
\* appended to emails.
StreamFetch ==
    /\ pc = "fetch_page"
    /\ listed' = [listed EXCEPT !.emails =
                    SelectSeq(listed.page_uids, LAMBDA id : server.source[id] # "absent")]
    /\ pc' = "count"
    /\ UNCHANGED <<op, email_ids, idx, succeeded_ids, failed_ids, cmds, exc, result, outcome>>
    /\ UNCHANGED <<move_vars, listing, request>>

\* get_email_count: len(messages[0].split()) of UID SEARCH, then the response
\* of get_emails_metadata with emails and total.
CountTotal ==
    /\ pc = "count"
    /\ result' = [emails |-> listed.emails, total |-> Cardinality(Present(server.source))]
    /\ pc' = "done"
    /\ outcome' = "returned"
    /\ UNCHANGED <<op, email_ids, idx, succeeded_ids, failed_ids, cmds, exc>>
    /\ UNCHANGED aux_vars

\* The other task's delete_emails: the STORE of its next id, or the EXPUNGE
\* after its loop.
OtherDelete ==
    /\ lists \in {"store", "expunge"}
    /\ IF lists = "store"
       THEN /\ server' = ServerUidStore(server, email_ids[idx]).box
            /\ idx' = idx + 1
            /\ lists' = IF idx < Len(email_ids) THEN "store" ELSE "expunge"
       ELSE /\ server' = ServerExpunge(server)
            /\ idx' = idx
            /\ lists' = "done"
    /\ UNCHANGED <<op, email_ids, pc, succeeded_ids, failed_ids, cmds, exc, result, outcome>>
    /\ UNCHANGED <<list_vars, request>>

SpecConc == InitConc /\ [][StreamSort \/ StreamFetch \/ CountTotal \/ OtherDelete]_vars

(***************************************************************************)
(* C40. When another task's delete or move on the same mailbox interleaves *)
(* with a get_emails_metadata call, the number of emails in the response   *)
(* is at most its total: items and total describe the same mailbox         *)
(* snapshot.                                                               *)
(***************************************************************************)
C40_ItemsWithinTotal ==
    (op = "metadata" /\ pc = "done") => Len(result.emails) <= result.total

\* When the other task has not taken a step before the response, the number
\* of emails is at most the total.
UndisturbedWithinTotal ==
    (op = "metadata" /\ pc = "done" /\ idx = 1
        /\ lists = (IF email_ids = <<>> THEN "expunge" ELSE "store"))
    => Len(result.emails) <= result.total

====
